---- MODULE Spec2Model ----
(***************************************************************************)
(* Model of the Kaiserhaus dashboard backend (app/main.py, app/shared.py   *)
(* and the routers under app/dashboards).                                  *)
(*                                                                         *)
(* Encoding of values.                                                     *)
(*   - Optional[str] : a string; None is the reserved string NoneStr.      *)
(*   - Optional[float] : a sequence of length 0 (None) or 1.               *)
(*   - a number is an integer count of hundredths (3.9 is 390).            *)
(*   - a datetime is an integer count of hours since day 0 (midnight of    *)
(*     day d is d * 24); NaT and NaN are the missing cell.                 *)
(*   - a cell is a record [kind, num, txt]; kind is "num", "dt", "txt"     *)
(*     or "na".                                                            *)
(*   - a DataFrame is [cols : set of column names, rows : sequence of      *)
(*     [idx : the index label, cells : function from cols to cells]].      *)
(***************************************************************************)
EXTENDS Integers, Sequences, FiniteSets, TLC

VARIABLES
    mainState,    \* app.main.state : [df: Optional frame reference]
    sharedState,  \* app.shared.state : [df: Optional frame reference]
    heap,         \* the DataFrame object built by load_excel (what the references point to)
    excel,        \* the workbook at DATA_PATH
    phase,        \* "boot" until on_startup has run, then "serving", or "failed"
    reqs,         \* the requests being served, by worker slot
    rcall,        \* one call of resolve_column and of the date resolution: inputs and results
    fdf,          \* the frame handed to a filter engine
    fcall,        \* one call of a filter engine: its arguments and its outcome
    hcall         \* one call of a router's handler on a loaded frame: its query and its response

vars == <<mainState, sharedState, heap, excel, phase, reqs, rcall, fdf, fcall, hcall>>

----------------------------------------------------------------------------
(* Bounds of the model *)

\* columns of a frame drawn for the resolver
MaxCols == 3
\* rows of a frame drawn for the filter engines
MaxRows == 2
\* requests served concurrently
NReq == 2

\* rows of a frame handed to a handler of the routers
MaxDeliveries == 3
\* rows of a frame of orders handed to a handler that adds up totals
MaxOrders == 4

----------------------------------------------------------------------------
(* Python values *)

NoneStr == "<None>"

\* Python truthiness of an Optional[str]: None and "" are falsy
Truthy(s) == s # NoneStr /\ s # ""

NoneNum == <<>>
Some(n) == <<n>>
IsNone(o) == Len(o) = 0
Val(o) == o[1]

Min(S) == CHOOSE x \in S : \A y \in S : x <= y

----------------------------------------------------------------------------
(* app/shared.py *)

COLUMN_ALIASES ==
    [ order_id |-> <<"order_id", "id_pedido", "pedido_id", "id">>,
      order_datetime |-> <<"order_datetime", "data_pedido", "created_at", "order_date">>,
      order_date |-> <<"order_date", "data", "dt", "date">>,
      platform |-> <<"platform", "plataforma">>,
      order_mode |-> <<"order_mode", "modo_pedido", "channel">>,
      status |-> <<"status", "order_status">>,
      macro_bairro |-> <<"macro_bairro", "macro_bairros", "macro_bairro_nome">>,
      total_brl |-> <<"total_brl", "valor_total", "total">>,
      num_itens |-> <<"num_itens", "qtd_itens", "items_count">>,
      tempo_preparo_minutos |-> <<"tempo_preparo_minutos", "prep_minutes", "preparo_min">>,
      actual_delivery_minutes |-> <<"actual_delivery_minutes", "delivery_minutes", "tempo_entrega_min">>,
      eta_minutes_quote |-> <<"eta_minutes_quote", "eta_minutos", "eta_min">>,
      distance_km |-> <<"distance_km", "distancia_km", "km">>,
      platform_commision_pct |-> <<"platform_commision_pct", "platform_commission_pct", "taxa_plataforma">>,
      satisfacao_nivel |-> <<"satisfacao_nivel", "satisfacao", "satisfaction", "nota">>,
      cliente_id |-> <<"cliente_id", "customer_id", "id_cliente">> ]

\* COLUMN_ALIASES.get(logical_name, [])
AliasesOf(logical_name) ==
    IF logical_name \in DOMAIN COLUMN_ALIASES THEN COLUMN_ALIASES[logical_name] ELSE <<>>

\* mutant: the alias table is consulted before the caller's override
resolve_column_alias_first(cols, preferred, logical_name) ==
    LET al == AliasesOf(logical_name)
        hits == {i \in 1..Len(al) : al[i] \in cols}
    IN  IF hits # {} THEN al[Min(hits)]
        ELSE IF Truthy(preferred) /\ preferred \in cols THEN preferred
        ELSE NoneStr

\* mutant: the loop keeps the last alias present instead of returning the first
resolve_column_last_alias(cols, preferred, logical_name) ==
    LET al == AliasesOf(logical_name)
        hits == {i \in 1..Len(al) : al[i] \in cols}
    IN  IF Truthy(preferred) /\ preferred \in cols THEN preferred
        ELSE IF hits = {} THEN NoneStr
        ELSE al[CHOOSE i \in hits : \A j \in hits : j <= i]

\* mutant: an override that is given decides alone; the aliases are not tried after it
resolve_column_override_only(cols, preferred, logical_name) ==
    LET al == AliasesOf(logical_name)
        hits == {i \in 1..Len(al) : al[i] \in cols}
    IN  IF Truthy(preferred) THEN (IF preferred \in cols THEN preferred ELSE NoneStr)
        ELSE IF hits = {} THEN NoneStr
        ELSE al[Min(hits)]

resolve_column(cols, preferred, logical_name) ==
    LET al == AliasesOf(logical_name)
        hits == {i \in 1..Len(al) : al[i] \in cols}
    IN  IF Truthy(preferred) /\ preferred \in cols THEN preferred
        ELSE IF hits = {} THEN NoneStr
        ELSE al[Min(hits)]

\* Python's `a or b` on two Optional[str]
Or(a, b) == IF Truthy(a) THEN a ELSE b

\* mutant: order_date is tried before order_datetime
resolve_date_column_date_first(cols, date_col) ==
    Or(resolve_column(cols, date_col, "order_date"),
       resolve_column(cols, date_col, "order_datetime"))

\* resolve_column(df, date_col, "order_datetime") or resolve_column(df, date_col, "order_date")
resolve_date_column(cols, date_col) ==
    Or(resolve_column(cols, date_col, "order_datetime"),
       resolve_column(cols, date_col, "order_date"))

----------------------------------------------------------------------------
(* Inputs of the resolver calls *)

ResolverColumnPool ==
    { "order_datetime", "created_at", "order_date", "data", "date",
      "platform", "plataforma", "canal", "nota", "satisfacao" }

ResolverFrames == {S \in SUBSET ResolverColumnPool : Cardinality(S) <= MaxCols}

ResolverOverrides == {NoneStr, "", "canal", "plataforma", "data", "ghost"}

ResolverFields ==
    {"order_datetime", "order_date", "platform", "satisfacao_nivel", "platform_commission_pct"}

----------------------------------------------------------------------------
(* Cells, and the pandas conversions the handlers apply to them *)

Num(n) == [kind |-> "num", num |-> n, txt |-> ""]
Dt(h) == [kind |-> "dt", num |-> h, txt |-> ""]
Txt(s) == [kind |-> "txt", num |-> 0, txt |-> s]
NA == [kind |-> "na", num |-> 0, txt |-> ""]

\* the numeric strings of the model's inputs, as hundredths
NumberTokens == [t \in {"4", "4.5", "5"} |-> CASE t = "4" -> 400 [] t = "4.5" -> 450 [] t = "5" -> 500]

\* the date strings of the model's inputs, as hours since 2024-01-01 00:00;
\* pandas' parser also takes a month-first date with slashes
DateTokens ==
    [t \in {"2024-01-01", "2024-01-02", "2024-01-03", "01/03/2024"} |->
        CASE t = "2024-01-01" -> 0
          [] t = "2024-01-02" -> 24
          [] t = "2024-01-03" -> 48
          [] t = "01/03/2024" -> 48]

\* 1970-01-01 00:00, where pandas places a small number read as nanoseconds
EpochHour == 0 - 473352

\* pd.to_numeric(s, errors="coerce"), one cell of a numeric, text or mixed column
to_numeric(cell) ==
    CASE cell.kind = "num" -> cell
      [] cell.kind = "na" -> NA
      [] cell.kind = "txt" -> IF cell.txt \in DOMAIN NumberTokens THEN Num(NumberTokens[cell.txt]) ELSE NA

\* pd.to_datetime(str): the parsed hour, or no value when the parser raises
parse_datetime(s) == IF s \in DOMAIN DateTokens THEN Some(DateTokens[s]) ELSE NoneNum

\* pd.to_datetime(s, errors="coerce"), one cell (a datetime column is returned as is)
to_datetime(cell) ==
    CASE cell.kind = "dt" -> cell
      [] cell.kind = "na" -> NA
      [] cell.kind = "num" -> Dt(EpochHour)
      [] cell.kind = "txt" -> IF IsNone(parse_datetime(cell.txt)) THEN NA ELSE Dt(Val(parse_datetime(cell.txt)))

Digit == <<"0", "1", "2", "3", "4", "5", "6", "7", "8", "9">>

RECURSIVE IntStr(_)
IntStr(k) == IF k < 10 THEN Digit[k + 1] ELSE IntStr(k \div 10) \o Digit[(k % 10) + 1]

\* str() of a float64 given in hundredths: 400 is "4.0", 390 is "3.9", 405 is "4.05"
FloatStr(n) ==
    LET a == IF n < 0 THEN 0 - n ELSE n
        f == a % 100
    IN  (IF n < 0 THEN "-" ELSE "") \o IntStr(a \div 100) \o "." \o
        (IF f % 10 = 0 THEN Digit[(f \div 10) + 1] ELSE Digit[(f \div 10) + 1] \o Digit[(f % 10) + 1])

\* Series.astype(str), one cell of a text or float column (a missing value reads "nan")
astype_str(cell) ==
    CASE cell.kind = "txt" -> cell.txt
      [] cell.kind = "na" -> "nan"
      [] cell.kind = "num" -> FloatStr(cell.num)

\* comparisons of pandas: any comparison with NaN or NaT is False
Ge(a, n) == a.kind # "na" /\ a.num >= n
Le(a, n) == a.kind # "na" /\ a.num <= n
Gt(a, n) == a.kind # "na" /\ a.num > n

\* d - e on two numeric cells: NaN when either is NaN
Sub(d, e) == IF d.kind = "na" \/ e.kind = "na" THEN NA ELSE Num(d.num - e.num)

\* df[mask]: the rows whose position is in keep, in their order
RECURSIVE Take(_, _, _)
Take(seq, keep, i) ==
    IF i > Len(seq) THEN <<>>
    ELSE (IF i \in keep THEN <<seq[i]>> ELSE <<>>) \o Take(seq, keep, i + 1)

Mask(seq, keep) == Take(seq, keep, 1)

Range(seq) == {seq[i] : i \in 1..Len(seq)}

\* Optional[List[str]]
NoneList == [none |-> TRUE, items |-> <<>>]
List(items) == [none |-> FALSE, items |-> items]

\* HTTPException(status_code, detail) raised inside a filter engine, and its normal return
Raise(code, detail) ==
    [status |-> code, detail |-> detail, rows |-> <<>>,
     dtc |-> NoneStr, plc |-> NoneStr, mcc |-> NoneStr, cpc |-> NoneStr,
     scc |-> NoneStr, dlc |-> NoneStr, etc |-> NoneStr]

Running(rows) == [Raise(200, "") EXCEPT !.rows = rows]

\* ensure_datetime(df, col) for a column of df: the datetime of each row
ensure_datetime(rows, col) == [i \in 1..Len(rows) |-> to_datetime(rows[i].cells[col])]

----------------------------------------------------------------------------
(* The filter engines: _apply_global_filters of the four routers.            *)
(* A step takes the engine's running state s (the rows of df, or the         *)
(* exception already raised) and returns the next one.                       *)

\* mutant: the end bound is read by position on the datetimes of the frame as it was before
\* the start bound narrowed it (`sdt = sdt[sdt >= sd]` left out)
date_range_filter_unaligned(s, dtc, start_date, end_date) ==
    IF s.status # 200 \/ ~(Truthy(start_date) \/ Truthy(end_date)) THEN s
    ELSE IF ~Truthy(dtc) THEN Raise(400, "Coluna de data nao encontrada para aplicar filtro.")
    ELSE
        LET sdt0 == ensure_datetime(s.rows, dtc)
            sd == parse_datetime(start_date)
            ed == parse_datetime(end_date)
            keep1 == IF Truthy(start_date)
                     THEN {i \in 1..Len(s.rows) : Ge(sdt0[i], Val(sd))}
                     ELSE 1..Len(s.rows)
            rows1 == Mask(s.rows, keep1)
            keep2 == {i \in 1..Len(rows1) : Le(sdt0[i], Val(ed))}
        IN  IF Truthy(start_date) /\ IsNone(sd) THEN Raise(422, "start_date invalido. Use yyyy-mm-dd")
            ELSE IF Truthy(end_date) /\ IsNone(ed) THEN Raise(422, "end_date invalido. Use yyyy-mm-dd")
            ELSE [s EXCEPT !.rows = IF Truthy(end_date) THEN Mask(rows1, keep2) ELSE rows1]

\* mutant: the end bound is exclusive
date_range_filter_exclusive_end(s, dtc, start_date, end_date) ==
    IF s.status # 200 \/ ~(Truthy(start_date) \/ Truthy(end_date)) THEN s
    ELSE IF ~Truthy(dtc) THEN Raise(400, "Coluna de data nao encontrada para aplicar filtro.")
    ELSE
        LET sdt0 == ensure_datetime(s.rows, dtc)
            sd == parse_datetime(start_date)
            ed == parse_datetime(end_date)
            keep1 == IF Truthy(start_date)
                     THEN {i \in 1..Len(s.rows) : Ge(sdt0[i], Val(sd))}
                     ELSE 1..Len(s.rows)
            rows1 == Mask(s.rows, keep1)
            sdt1 == Mask(sdt0, keep1)
            keep2 == {i \in 1..Len(rows1) : Le(sdt1[i], Val(ed) - 1)}
        IN  IF Truthy(start_date) /\ IsNone(sd) THEN Raise(422, "start_date invalido. Use yyyy-mm-dd")
            ELSE IF Truthy(end_date) /\ IsNone(ed) THEN Raise(422, "end_date invalido. Use yyyy-mm-dd")
            ELSE [s EXCEPT !.rows = IF Truthy(end_date) THEN Mask(rows1, keep2) ELSE rows1]

\* the date-range block, the same text in the four engines
date_range_filter(s, dtc, start_date, end_date) ==
    IF s.status # 200 \/ ~(Truthy(start_date) \/ Truthy(end_date)) THEN s
    ELSE IF ~Truthy(dtc) THEN Raise(400, "Coluna de data nao encontrada para aplicar filtro.")
    ELSE
        LET sdt0 == ensure_datetime(s.rows, dtc)
            sd == parse_datetime(start_date)
            ed == parse_datetime(end_date)
            keep1 == IF Truthy(start_date)
                     THEN {i \in 1..Len(s.rows) : Ge(sdt0[i], Val(sd))}
                     ELSE 1..Len(s.rows)
            rows1 == Mask(s.rows, keep1)
            sdt1 == Mask(sdt0, keep1)
            keep2 == {i \in 1..Len(rows1) : Le(sdt1[i], Val(ed))}
        IN  IF Truthy(start_date) /\ IsNone(sd) THEN Raise(422, "start_date invalido. Use yyyy-mm-dd")
            ELSE IF Truthy(end_date) /\ IsNone(ed) THEN Raise(422, "end_date invalido. Use yyyy-mm-dd")
            ELSE [s EXCEPT !.rows = IF Truthy(end_date) THEN Mask(rows1, keep2) ELSE rows1]

\* mutant: the block does nothing
isin_filter_skipped(s, col, accepted, detail) == s

\* a categorical block (platform, macro_bairro, classe_pedido)
isin_filter(s, col, accepted, detail) ==
    IF s.status # 200 \/ accepted.none \/ Len(accepted.items) = 0 THEN s
    ELSE IF ~Truthy(col) THEN Raise(400, detail)
    ELSE [s EXCEPT !.rows =
            Mask(s.rows, {i \in 1..Len(s.rows) : astype_str(s.rows[i].cells[col]) \in Range(accepted.items)})]

\* mutant: the bounds are exclusive
score_rows_exclusive(rows, scc, smin, smax) ==
    Mask(rows, {i \in 1..Len(rows) :
                  /\ Gt(to_numeric(rows[i].cells[scc]), smin)
                  /\ Le(to_numeric(rows[i].cells[scc]), smax - 1)})

\* df[(s >= smin) & (s <= smax)]
score_rows(rows, scc, smin, smax) ==
    Mask(rows, {i \in 1..Len(rows) :
                  /\ Ge(to_numeric(rows[i].cells[scc]), smin)
                  /\ Le(to_numeric(rows[i].cells[scc]), smax)})

\* mutant: a score bound on a frame without a score column is an error
score_filter_finance_requires_column(s, scc, score_min, score_max) ==
    IF s.status # 200 \/ (IsNone(score_min) /\ IsNone(score_max)) THEN s
    ELSE
        LET smin == IF IsNone(score_min) THEN 100 ELSE Val(score_min)
            smax == IF IsNone(score_max) THEN 500 ELSE Val(score_max)
        IN  IF smin > smax THEN Raise(422, "score_min nao pode ser maior que score_max")
            ELSE IF Truthy(scc) THEN [s EXCEPT !.rows = score_rows(s.rows, scc, smin, smax)]
            ELSE Raise(400, "Coluna de satisfacao nao encontrada para aplicar filtro.")

\* the score block of financeiro: entered only when a bound is given
score_filter_finance(s, scc, score_min, score_max) ==
    IF s.status # 200 \/ (IsNone(score_min) /\ IsNone(score_max)) THEN s
    ELSE
        LET smin == IF IsNone(score_min) THEN 100 ELSE Val(score_min)
            smax == IF IsNone(score_max) THEN 500 ELSE Val(score_max)
        IN  IF smin > smax THEN Raise(422, "score_min nao pode ser maior que score_max")
            ELSE IF Truthy(scc) THEN [s EXCEPT !.rows = score_rows(s.rows, scc, smin, smax)]
            ELSE s

\* mutant: the bounds are compared only once a score column is there to filter
score_filter_satisfaction_check_after_column(s, scc, score_min, score_max) ==
    IF s.status # 200 THEN s
    ELSE
        LET smin == IF IsNone(score_min) THEN 100 ELSE Val(score_min)
            smax == IF IsNone(score_max) THEN 500 ELSE Val(score_max)
        IN  IF ~Truthy(scc) THEN s
            ELSE IF smin > smax THEN Raise(422, "score_min nao pode ser maior que score_max")
            ELSE [s EXCEPT !.rows = score_rows(s.rows, scc, smin, smax)]

\* the score block of satisfacao: not under any condition on the bounds
score_filter_satisfaction(s, scc, score_min, score_max) ==
    IF s.status # 200 THEN s
    ELSE
        LET smin == IF IsNone(score_min) THEN 100 ELSE Val(score_min)
            smax == IF IsNone(score_max) THEN 500 ELSE Val(score_max)
        IN  IF smin > smax THEN Raise(422, "score_min nao pode ser maior que score_max")
            ELSE IF Truthy(scc) THEN [s EXCEPT !.rows = score_rows(s.rows, scc, smin, smax)]
            ELSE s

\* mutant: a delivery exactly at the threshold counts as late
delivery_status_filter_ops_late_at_threshold(s, dlc, etc, delivery_status, threshold_min) ==
    IF s.status # 200 \/ ~Truthy(delivery_status) THEN s
    ELSE IF delivery_status \notin {"atrasado", "no_prazo"}
         THEN Raise(422, "delivery_status invalido. Use atrasado|no_prazo")
    ELSE IF ~Truthy(dlc) \/ ~Truthy(etc)
         THEN Raise(400, "delivery_status requer delivery_col e eta_col validos")
    ELSE
        LET delta(i) == Sub(to_numeric(s.rows[i].cells[dlc]), to_numeric(s.rows[i].cells[etc]))
            thr == IF IsNone(threshold_min) THEN 0 ELSE Val(threshold_min)
        IN  [s EXCEPT !.rows =
                IF delivery_status = "atrasado"
                THEN Mask(s.rows, {i \in 1..Len(s.rows) : Ge(delta(i), thr)})
                ELSE Mask(s.rows, {i \in 1..Len(s.rows) : Le(delta(i), thr - 1)})]

\* the delivery_status block of desempenho_operacional
delivery_status_filter_ops(s, dlc, etc, delivery_status, threshold_min) ==
    IF s.status # 200 \/ ~Truthy(delivery_status) THEN s
    ELSE IF delivery_status \notin {"atrasado", "no_prazo"}
         THEN Raise(422, "delivery_status invalido. Use atrasado|no_prazo")
    ELSE IF ~Truthy(dlc) \/ ~Truthy(etc)
         THEN Raise(400, "delivery_status requer delivery_col e eta_col validos")
    ELSE
        LET delta(i) == Sub(to_numeric(s.rows[i].cells[dlc]), to_numeric(s.rows[i].cells[etc]))
            thr == IF IsNone(threshold_min) THEN 0 ELSE Val(threshold_min)
        IN  [s EXCEPT !.rows =
                IF delivery_status = "atrasado"
                THEN Mask(s.rows, {i \in 1..Len(s.rows) : Gt(delta(i), thr)})
                ELSE Mask(s.rows, {i \in 1..Len(s.rows) : Le(delta(i), thr)})]

\* the delivery_status block of satisfacao: d > e, d <= e, no threshold
delivery_status_filter_satisfaction(s, dlc, etc, delivery_status) ==
    IF s.status # 200 \/ ~Truthy(delivery_status) THEN s
    ELSE IF delivery_status \notin {"atrasado", "no_prazo"}
         THEN Raise(422, "delivery_status invalido. Use atrasado|no_prazo")
    ELSE IF ~Truthy(dlc) \/ ~Truthy(etc)
         THEN Raise(400, "delivery_status requer delivery_col e eta_col validos")
    ELSE
        LET d(i) == to_numeric(s.rows[i].cells[dlc])
            e(i) == to_numeric(s.rows[i].cells[etc])
        IN  [s EXCEPT !.rows =
                IF delivery_status = "atrasado"
                THEN Mask(s.rows, {i \in 1..Len(s.rows) : e(i).kind # "na" /\ Gt(d(i), e(i).num)})
                ELSE Mask(s.rows, {i \in 1..Len(s.rows) : e(i).kind # "na" /\ Le(d(i), e(i).num)})]

PlatformDetail == "Coluna de plataforma nao encontrada para aplicar filtro."
MacroDetail == "Coluna de macro_bairro nao encontrada para aplicar filtro."
ClasseDetail == "Coluna de classe_pedido nao encontrada para aplicar filtro."

\* the resolved columns go back to the caller with the rows
Return(s, dtc, plc, mcc, cpc, scc, dlc, etc) ==
    IF s.status # 200 THEN s
    ELSE [s EXCEPT !.dtc = dtc, !.plc = plc, !.mcc = mcc, !.cpc = cpc,
                   !.scc = scc, !.dlc = dlc, !.etc = etc]

\* visao_geral._apply_global_filters
apply_global_filters_overview(df, c) ==
    LET dtc == resolve_date_column(df.cols, c.date_col)
        plc == resolve_column(df.cols, c.platform_col, "platform")
        mcc == resolve_column(df.cols, c.macro_col, "macro_bairro")
        cpc == resolve_column(df.cols, c.classe_col, "order_mode")
        s1 == date_range_filter(Running(df.rows), dtc, c.start_date, c.end_date)
        s2 == isin_filter(s1, plc, c.platform, PlatformDetail)
        s3 == isin_filter(s2, mcc, c.macro_bairro, MacroDetail)
        s4 == isin_filter(s3, cpc, c.classe_pedido, ClasseDetail)
    IN  Return(s4, dtc, plc, mcc, cpc, NoneStr, NoneStr, NoneStr)

\* desempenho_operacional._apply_global_filters
apply_global_filters_ops(df, c) ==
    LET dtc == resolve_date_column(df.cols, c.date_col)
        plc == resolve_column(df.cols, c.platform_col, "platform")
        mcc == resolve_column(df.cols, c.macro_col, "macro_bairro")
        dlc == resolve_column(df.cols, c.delivery_col, "actual_delivery_minutes")
        etc == resolve_column(df.cols, c.eta_col, "eta_minutes_quote")
        s1 == date_range_filter(Running(df.rows), dtc, c.start_date, c.end_date)
        s2 == isin_filter(s1, plc, c.platform, PlatformDetail)
        s3 == isin_filter(s2, mcc, c.macro_bairro, MacroDetail)
        s4 == delivery_status_filter_ops(s3, dlc, etc, c.delivery_status, c.threshold_min)
    IN  Return(s4, dtc, plc, mcc, NoneStr, NoneStr, dlc, etc)

\* financeiro._apply_global_filters
apply_global_filters_finance(df, c) ==
    LET dtc == resolve_date_column(df.cols, c.date_col)
        plc == resolve_column(df.cols, c.platform_col, "platform")
        mcc == resolve_column(df.cols, c.macro_col, "macro_bairro")
        cpc == resolve_column(df.cols, c.classe_col, "order_mode")
        scc == resolve_column(df.cols, c.score_col, "satisfacao_nivel")
        s1 == date_range_filter(Running(df.rows), dtc, c.start_date, c.end_date)
        s2 == isin_filter(s1, plc, c.platform, PlatformDetail)
        s3 == isin_filter(s2, mcc, c.macro_bairro, MacroDetail)
        s4 == isin_filter(s3, cpc, c.classe_pedido, ClasseDetail)
        s5 == score_filter_finance(s4, scc, c.score_min, c.score_max)
    IN  Return(s5, dtc, plc, mcc, cpc, NoneStr, NoneStr, NoneStr)

\* satisfacao._apply_global_filters
apply_global_filters_satisfaction(df, c) ==
    LET dtc == resolve_date_column(df.cols, c.date_col)
        plc == resolve_column(df.cols, c.platform_col, "platform")
        mcc == resolve_column(df.cols, c.macro_col, "macro_bairro")
        dlc == resolve_column(df.cols, c.delivery_col, "actual_delivery_minutes")
        scc == resolve_column(df.cols, c.score_col, "satisfacao_nivel")
        etc == resolve_column(df.cols, c.eta_col, "eta_minutes_quote")
        s1 == date_range_filter(Running(df.rows), dtc, c.start_date, c.end_date)
        s2 == isin_filter(s1, plc, c.platform, PlatformDetail)
        s3 == isin_filter(s2, mcc, c.macro_bairro, MacroDetail)
        s4 == score_filter_satisfaction(s3, scc, c.score_min, c.score_max)
        s5 == delivery_status_filter_satisfaction(s4, dlc, etc, c.delivery_status)
    IN  Return(s5, dtc, plc, mcc, NoneStr, scc, dlc, etc)

Engines == {"overview", "ops", "finance", "satisfaction"}

\* the engine of a router
apply_global_filters(engine, df, c) ==
    CASE engine = "overview" -> apply_global_filters_overview(df, c)
      [] engine = "ops" -> apply_global_filters_ops(df, c)
      [] engine = "finance" -> apply_global_filters_finance(df, c)
      [] engine = "satisfaction" -> apply_global_filters_satisfaction(df, c)

----------------------------------------------------------------------------
(* Inputs of the filter engines *)

\* what a sheet says of one order
OrderPool ==
    { [date |-> Dt(24), platform |-> Txt("ifood"), macro |-> Txt("centro"), classe |-> Txt("delivery"),
       score |-> Num(400), delivery |-> Num(3000), eta |-> Num(2500), alt |-> Txt("rappi")],
      [date |-> Dt(61), platform |-> Txt("rappi"), macro |-> Txt("centro"), classe |-> Txt("retirada"),
       score |-> Num(390), delivery |-> Num(2000), eta |-> Num(2500), alt |-> Txt("ifood")],
      [date |-> NA, platform |-> NA, macro |-> Txt("norte"), classe |-> Txt("delivery"),
       score |-> Txt("ruim"), delivery |-> NA, eta |-> Num(2000), alt |-> Txt("ifood")],
      [date |-> Txt("2024-01-03"), platform |-> Txt("ifood"), macro |-> Txt("norte"), classe |-> NA,
       score |-> Num(500), delivery |-> Num(2500), eta |-> Num(2500), alt |-> NA],
      [date |-> Dt(0), platform |-> Txt("rappi"), macro |-> Txt("centro"), classe |-> Txt("delivery"),
       score |-> NA, delivery |-> Num(2501), eta |-> Num(2500), alt |-> Txt("rappi")] }

\* the sheets' headers: column name |-> what the column holds
SheetCanonical ==
    [order_datetime |-> "date", platform |-> "platform", macro_bairro |-> "macro",
     order_mode |-> "classe", satisfacao_nivel |-> "score",
     actual_delivery_minutes |-> "delivery", eta_minutes_quote |-> "eta", canal |-> "alt"]

SheetAliases ==
    [data |-> "date", plataforma |-> "platform", macro_bairros |-> "macro",
     modo_pedido |-> "classe", nota |-> "score", delivery_minutes |-> "delivery", eta_min |-> "eta"]

SheetSparse == [macro_bairro |-> "macro", actual_delivery_minutes |-> "delivery"]

Sheets == {SheetCanonical, SheetAliases, SheetSparse}

\* the frame load_excel builds: a RangeIndex, one cell per header
MakeFrame(sheet, orders) ==
    [cols |-> DOMAIN sheet,
     rows |-> [i \in 1..Len(orders) |->
                 [idx |-> i - 1, cells |-> [col \in DOMAIN sheet |-> orders[i][sheet[col]]]]]]

FilterFrames ==
    {MakeFrame(sh, os) : sh \in Sheets, os \in UNION {[1..n -> OrderPool] : n \in 0..MaxRows}}

\* the arguments of an engine when the request carries no parameter
NoCriteria ==
    [start_date |-> NoneStr, end_date |-> NoneStr,
     platform |-> NoneList, macro_bairro |-> NoneList, classe_pedido |-> NoneList,
     score_min |-> NoneNum, score_max |-> NoneNum,
     delivery_status |-> NoneStr, threshold_min |-> NoneNum,
     date_col |-> NoneStr, platform_col |-> NoneStr, macro_col |-> NoneStr, classe_col |-> NoneStr,
     score_col |-> NoneStr, delivery_col |-> NoneStr, eta_col |-> NoneStr]

\* requests that carry one parameter
OneParameter ==
    {[NoCriteria EXCEPT !.start_date = v] : v \in {"", "2024-01-02", "bad"}}
    \cup {[NoCriteria EXCEPT !.end_date = v] : v \in {"2024-01-03", "01/03/2024"}}
    \cup {[NoCriteria EXCEPT !.platform = v] : v \in {List(<<>>), List(<<"ifood">>), List(<<"rappi", "nan">>)}}
    \cup {[NoCriteria EXCEPT !.macro_bairro = v] : v \in {List(<<"centro">>)}}
    \cup {[NoCriteria EXCEPT !.classe_pedido = v] : v \in {List(<<"delivery">>)}}
    \cup {[NoCriteria EXCEPT !.score_min = v] : v \in {Some(400), Some(600)}}
    \cup {[NoCriteria EXCEPT !.score_max = v] : v \in {Some(500), Some(300)}}
    \cup {[NoCriteria EXCEPT !.delivery_status = v] : v \in {"atrasado", "no_prazo", "foo"}}
    \cup {[NoCriteria EXCEPT !.threshold_min = v] : v \in {Some(1)}}
    \cup {[NoCriteria EXCEPT !.date_col = v] : v \in {"ghost", "canal"}}
    \cup {[NoCriteria EXCEPT !.platform_col = v] : v \in {"canal", "ghost"}}
    \cup {[NoCriteria EXCEPT !.score_col = v] : v \in {"ghost"}}

\* the parameters of two requests put in one
Merge(a, b) == [f \in DOMAIN NoCriteria |-> IF a[f] # NoCriteria[f] THEN a[f] ELSE b[f]]

\* requests that carry every criterion at once
AllParameters ==
    {[NoCriteria EXCEPT !.start_date = "2024-01-02", !.end_date = "2024-01-03",
                        !.platform = List(<<"ifood">>), !.macro_bairro = List(<<"centro">>),
                        !.classe_pedido = List(<<"delivery">>),
                        !.score_min = Some(400), !.score_max = Some(450),
                        !.delivery_status = st, !.platform_col = pc]
        : st \in {"atrasado", "no_prazo"}, pc \in {NoneStr, "ghost"}}

CriteriaPool == {NoCriteria} \cup {Merge(a, b) : a, b \in OneParameter} \cup AllParameters

\* the parameters each router's handlers pass to their engine
EngineParameters(engine) ==
    {"start_date", "end_date", "platform", "macro_bairro", "date_col", "platform_col", "macro_col"}
    \cup CASE engine = "overview" -> {"classe_pedido", "classe_col"}
           [] engine = "ops" -> {"delivery_status", "threshold_min", "delivery_col", "eta_col"}
           [] engine = "finance" -> {"classe_pedido", "classe_col", "score_min", "score_max", "score_col"}
           [] engine = "satisfaction" -> {"score_min", "score_max", "score_col", "delivery_status",
                                          "delivery_col", "eta_col"}

Passed(engine, c) ==
    [f \in DOMAIN NoCriteria |-> IF f \in EngineParameters(engine) THEN c[f] ELSE NoCriteria[f]]

----------------------------------------------------------------------------
(* The process before on_startup, and the idle values of the calls *)

NoState == [df |-> <<>>, cols |-> {}, total_rows |-> 0]
EmptyFrame == [cols |-> {}, rows |-> <<>>]

NoCall ==
    [pc |-> "idle", cols |-> {}, preferred |-> NoneStr, logical_name |-> "",
     out |-> NoneStr, date |-> NoneStr]

NoFilterCall == [pc |-> "idle", engine |-> "", c |-> NoCriteria, out |-> Running(<<>>)]

\* the query of a handler of the ops router: the engine's parameters and the handler's own
NoOpsQuery == [c |-> NoCriteria, grace_min |-> 0, prep_col |-> NoneStr, distance_col |-> NoneStr]

NoHandlerCall == [pc |-> "idle", handler |-> "", q |-> NoOpsQuery, resp |-> [status |-> 0, detail |-> "", data |-> <<>>]]

processVars == <<mainState, sharedState, heap, excel, phase, reqs>>

----------------------------------------------------------------------------
(* app/main.py: the process, its startup and the handlers it serves *)

\* the workbook file: absent, or present with the sheet pd.read_excel reads
NoFile == [exists |-> FALSE, frame |-> EmptyFrame]

BookOrders ==
    << [platform |-> Txt("ifood"), total |-> Num(4000), pct |-> Num(10)],
       [platform |-> Txt("rappi"), total |-> Num(2000), pct |-> Num(20)],
       [platform |-> Txt("ifood"), total |-> Num(1000), pct |-> NA] >>

BookCanonical ==
    [platform |-> "platform", total_brl |-> "total", platform_commision_pct |-> "pct"]

BookNoCommission == [plataforma |-> "platform", valor_total |-> "total"]

Workbooks ==
    { [exists |-> TRUE, frame |-> MakeFrame(BookCanonical, BookOrders)],
      [exists |-> TRUE, frame |-> MakeFrame(BookNoCommission, BookOrders)],
      [exists |-> TRUE, frame |-> MakeFrame(BookCanonical, <<>>)],
      NoFile }

\* load_excel(path): the frame read, or FileNotFoundError
load_excel(book) ==
    IF ~book.exists THEN [raised |-> TRUE, df |-> EmptyFrame]
    ELSE [raised |-> FALSE, df |-> book.frame]

\* the one DataFrame object on_startup creates; a holder's df is None (<<>>) or a reference to it
Loaded == <<"loaded">>

MainEndpoints == {"finance_kpis", "finance_margin_by_platform"}
RouterEndpoints == {"ops_kpis", "overview_kpis"}
Endpoints == MainEndpoints \cup RouterEndpoints

\* the `state` a handler's module binds: the handlers of main.py read app.main.state,
\* the routers import theirs from app.shared
Holder(endpoint) == IF endpoint \in RouterEndpoints THEN sharedState ELSE mainState

\* a response: the status, the detail of an HTTPException, the rows of the body
Response(status, detail, data) == [status |-> status, detail |-> detail, data |-> data]

NotLoaded == Response(500, "DataFrame nao carregado.", <<>>)

\* an exception that is not an HTTPException
ServerError == Response(500, "Internal Server Error", <<>>)

\* the query string of a request
NoQuery == [c |-> NoCriteria, total_col |-> NoneStr, pct_col |-> NoneStr]

Requests ==
    {[endpoint |-> "finance_kpis", q |-> [NoQuery EXCEPT !.total_col = t]] : t \in {NoneStr, "net"}}
    \cup {[endpoint |-> "finance_margin_by_platform", q |-> [NoQuery EXCEPT !.c.platform_col = p]]
            : p \in {NoneStr, "ghost"}}
    \cup {[endpoint |-> "ops_kpis", q |-> [NoQuery EXCEPT !.c.start_date = s, !.c.delivery_status = d]]
            : s \in {NoneStr, "bad"}, d \in {NoneStr, "foo"}}
    \cup {[endpoint |-> "overview_kpis", q |-> [NoQuery EXCEPT !.c.start_date = s]]
            : s \in {NoneStr, "bad", "2024-01-02"}}

\* mutant: the date parameters are validated before the holder is looked at
require_loaded_after_validation(state_df, c) ==
    IF Truthy(c.start_date) /\ IsNone(parse_datetime(c.start_date))
    THEN <<Response(422, "start_date invalido. Use yyyy-mm-dd", <<>>)>>
    ELSE IF state_df = <<>> THEN <<NotLoaded>>
    ELSE <<>>

\* `if state.df is None: raise HTTPException(500, ...)`, the first statement of every
\* handler: the response raised, or none
require_loaded(state_df, c) == IF state_df = <<>> THEN <<NotLoaded>> ELSE <<>>

\* the local variables of a handler of main.py
NoLocals == [platform |-> NoneStr, total_brl_col |-> NoneStr, pct |-> NoneStr]
NoTmp == [ref |-> "local", frame |-> EmptyFrame]

\* a column is of object or datetime dtype: sum, mean and * raise on it
NotNumeric(rows, col) == \E i \in 1..Len(rows) : rows[i].cells[col].kind \in {"txt", "dt"}

\* Series.sum() of numeric cells, NaN skipped
RECURSIVE SumCells(_)
SumCells(cells) ==
    IF Len(cells) = 0 THEN 0
    ELSE (IF cells[1].kind = "num" THEN cells[1].num ELSE 0) + SumCells(Tail(cells))

Column(rows, col) == [i \in 1..Len(rows) |-> rows[i].cells[col]]

\* t * (1 - p) on a total and a commission share, both in hundredths: NaN when either is
\* NaN (the workbooks' values make the division exact)
Net(t, p) == IF t.kind # "num" \/ p.kind # "num" THEN NA ELSE Num((t.num * (100 - p.num)) \div 100)

\* finance_kpis, after its check, on the frame df
finance_kpis(df, q) ==
    LET total_brl_col == resolve_column(df.cols, q.total_col, "total_brl")
        pct == resolve_column(df.cols, q.pct_col, "platform_commision_pct")
        receita_total == IF Truthy(total_brl_col) THEN SumCells(Column(df.rows, total_brl_col)) ELSE 0
        receita_liquida ==
            IF Truthy(total_brl_col) /\ Truthy(pct)
            THEN SumCells([i \in 1..Len(df.rows) |->
                    Net(df.rows[i].cells[total_brl_col], to_numeric(df.rows[i].cells[pct]))])
            ELSE 0
    IN  IF Truthy(total_brl_col) /\ NotNumeric(df.rows, total_brl_col) THEN ServerError
        ELSE Response(200, "",
                << [key |-> "receita_total", vals |-> <<Num(receita_total)>>],
                   [key |-> "receita_liquida", vals |-> <<Num(receita_liquida)>>] >>)

\* mutant: the selection is a view of the holder's frame, not a copy
selection_view(df, names) == [ref |-> "loaded", frame |-> df]

\* df[[...]].copy(): a new frame of the named columns
copy_selection(df, names) ==
    [ref |-> "local",
     frame |-> [cols |-> names,
                rows |-> [i \in 1..Len(df.rows) |->
                            [idx |-> df.rows[i].idx,
                             cells |-> [col \in names |-> df.rows[i].cells[col]]]]]]

\* frame[name] = values
setitem(frame, name, values) ==
    [cols |-> frame.cols \cup {name},
     rows |-> [i \in 1..Len(frame.rows) |->
                 [idx |-> frame.rows[i].idx,
                  cells |-> [col \in frame.cols \cup {name} |->
                               IF col = name THEN values[i] ELSE frame.rows[i].cells[col]]]]]

\* finance_margin_by_platform up to `tmp["net"] = ...`: the exception raised if any, the
\* handler's locals, tmp, and what the holder's frame is afterwards
margin_prepare(df, q) ==
    LET platform == resolve_column(df.cols, q.c.platform_col, "platform")
        total_brl_col == resolve_column(df.cols, q.total_col, "total_brl")
        pct == resolve_column(df.cols, q.pct_col, "platform_commision_pct")
        tmp == copy_selection(df, {platform, total_brl_col, pct})
        net == [i \in 1..Len(tmp.frame.rows) |->
                  Net(to_numeric(tmp.frame.rows[i].cells[total_brl_col]),
                      to_numeric(tmp.frame.rows[i].cells[pct]))]
        written == setitem(tmp.frame, "net", net)
    IN  IF ~Truthy(platform) \/ ~Truthy(total_brl_col) \/ ~Truthy(pct)
        THEN [resp |-> Response(400, "Colunas de plataforma/total_brl/comissao nao encontradas.", <<>>),
              locals |-> NoLocals, tmp |-> NoTmp, df |-> df]
        ELSE [resp |-> Response(200, "", <<>>),
              locals |-> [platform |-> platform, total_brl_col |-> total_brl_col, pct |-> pct],
              tmp |-> [tmp EXCEPT !.frame = written],
              df |-> IF tmp.ref = "loaded" THEN written ELSE df]

\* the platform names of the workbooks, in the order groupby sorts its keys
KeyOrder == <<"ifood", "rappi">>

\* mean of a group's cells, NaN skipped; NaN for a group without a number
Mean(cells) ==
    LET n == Cardinality({i \in 1..Len(cells) : cells[i].kind = "num"})
    IN  IF n = 0 THEN NA ELSE Num(SumCells(cells) \div n)

NegInf == [kind |-> "-inf", num |-> 0, txt |-> ""]

\* (net / gross).replace({inf: nan}).fillna(0), in hundredths
MarginPct(net, gross) ==
    IF net.kind # "num" \/ gross.kind # "num" THEN Num(0)
    ELSE IF gross.num = 0 THEN (IF net.num < 0 THEN NegInf ELSE Num(0))
    ELSE Num((net.num * 100) \div gross.num)

Above(a, b) == a.kind = "num" /\ (b.kind = "-inf" \/ (b.kind = "num" /\ a.num > b.num))

\* sort_values("margin_pct", ascending=False) of the groups, equal margins in key order
RECURSIVE SortDescending(_)
SortDescending(g) ==
    IF Len(g) = 0 THEN <<>>
    ELSE LET rest == SortDescending(Tail(g))
             before == {i \in 1..Len(rest) : ~Above(g[1].vals[3], rest[i].vals[3])}
         IN  Mask(rest, before) \o <<g[1]>> \o Mask(rest, (1..Len(rest)) \ before)

\* finance_margin_by_platform from the groupby on: the response
margin_aggregate(tmp, locals) ==
    LET keys == SelectSeq(KeyOrder, LAMBDA k :
                    \E i \in 1..Len(tmp.rows) : tmp.rows[i].cells[locals.platform] = Txt(k))
        Group(k) == Mask(tmp.rows, {i \in 1..Len(tmp.rows) : tmp.rows[i].cells[locals.platform] = Txt(k)})
        g == [j \in 1..Len(keys) |->
                LET gross == Mean(Column(Group(keys[j]), locals.total_brl_col))
                    net == Mean(Column(Group(keys[j]), "net"))
                IN  [key |-> keys[j], vals |-> <<gross, net, MarginPct(net, gross)>>]]
    IN  IF NotNumeric(tmp.rows, locals.total_brl_col) THEN ServerError
        ELSE Response(200, "", SortDescending(g))

\* finance_margin_by_platform, after its check, on the frame df
finance_margin_by_platform(df, q) ==
    LET p == margin_prepare(df, q)
    IN  IF p.resp.status # 200 THEN p.resp ELSE margin_aggregate(p.tmp.frame, p.locals)

\* a worker slot: where its handler stands, its arguments, its locals and its response;
\* overlap records that the handler read the dataset while another stood between
\* deriving a column and aggregating
NoRequest ==
    [pc |-> "idle", endpoint |-> "", q |-> NoQuery, df |-> <<>>, locals |-> NoLocals,
     tmp |-> NoTmp, overlap |-> FALSE, resp |-> Response(0, "", <<>>)]

NoRequests == [i \in 1..NReq |-> NoRequest]

\* the module-level code has run; uvicorn has not yet sent lifespan.startup
Init ==
    /\ excel \in Workbooks
    /\ mainState = NoState
    /\ sharedState = NoState
    /\ heap = EmptyFrame
    /\ phase = "boot"
    /\ reqs = NoRequests
    /\ rcall = NoCall
    /\ fdf = EmptyFrame
    /\ fcall = NoFilterCall
    /\ hcall = NoHandlerCall

\* on_startup: the frame is loaded and bound to the `state` of app.main
Startup ==
    /\ phase = "boot"
    /\ ~load_excel(excel).raised
    /\ heap' = load_excel(excel).df
    /\ mainState' = [df |-> Loaded, cols |-> heap'.cols, total_rows |-> Len(heap'.rows)]
    /\ phase' = "serving"
    /\ UNCHANGED <<sharedState, excel, reqs, rcall, fdf, fcall, hcall>>

\* on_startup raises FileNotFoundError: the server exits without serving
StartupFails ==
    /\ phase = "boot"
    /\ load_excel(excel).raised
    /\ phase' = "failed"
    /\ UNCHANGED <<mainState, sharedState, heap, excel, reqs, rcall, fdf, fcall, hcall>>

\* a request arrives and a worker thread takes it
Begin(i) ==
    /\ phase = "serving"
    /\ reqs[i].pc = "idle"
    /\ \E r \in Requests :
         reqs' = [reqs EXCEPT ![i] = [NoRequest EXCEPT !.pc = "check", !.endpoint = r.endpoint, !.q = r.q]]
    /\ UNCHANGED <<mainState, sharedState, heap, excel, phase, rcall, fdf, fcall, hcall>>

\* the handler's first statement, then `df = state.df` (`state.df.copy()` in the routers)
CheckLoaded(i) ==
    /\ reqs[i].pc = "check"
    /\ LET raised == require_loaded(Holder(reqs[i].endpoint).df, reqs[i].q.c)
       IN  reqs' = [reqs EXCEPT ![i] =
                IF raised # <<>>
                THEN [@ EXCEPT !.pc = "done", !.resp = raised[1]]
                ELSE [@ EXCEPT !.pc = "run", !.df = Holder(reqs[i].endpoint).df]]
    /\ UNCHANGED <<mainState, sharedState, heap, excel, phase, rcall, fdf, fcall, hcall>>

\* the body of a handler of main.py on the frame df refers to: finance_kpis to its end,
\* finance_margin_by_platform up to the derived column
Run(i) ==
    /\ reqs[i].pc = "run"
    /\ reqs[i].endpoint \in MainEndpoints
    /\ LET seen == \E k \in 1..NReq : k # i /\ reqs[k].pc = "agg"
           p == margin_prepare(heap, reqs[i].q)
       IN  IF reqs[i].endpoint = "finance_kpis"
           THEN /\ reqs' = [reqs EXCEPT ![i] = [@ EXCEPT !.pc = "done", !.overlap = seen,
                                                         !.resp = finance_kpis(heap, reqs[i].q)]]
                /\ heap' = heap
           ELSE /\ reqs' = [reqs EXCEPT ![i] =
                              IF p.resp.status # 200
                              THEN [@ EXCEPT !.pc = "done", !.overlap = seen, !.resp = p.resp]
                              ELSE [@ EXCEPT !.pc = "agg", !.overlap = seen,
                                             !.locals = p.locals, !.tmp = p.tmp]]
                /\ heap' = p.df
    /\ UNCHANGED <<mainState, sharedState, excel, phase, rcall, fdf, fcall, hcall>>

\* finance_margin_by_platform: groupby, margin, sort, on what tmp refers to
Aggregate(i) ==
    /\ reqs[i].pc = "agg"
    /\ LET tmp == IF reqs[i].tmp.ref = "loaded" THEN heap ELSE reqs[i].tmp.frame
       IN  reqs' = [reqs EXCEPT ![i] = [@ EXCEPT !.pc = "done", !.resp = margin_aggregate(tmp, reqs[i].locals)]]
    /\ UNCHANGED <<mainState, sharedState, heap, excel, phase, rcall, fdf, fcall, hcall>>

\* the response is sent; the handler's locals are dropped
Respond(i) ==
    /\ reqs[i].pc = "done"
    /\ reqs' = [reqs EXCEPT ![i] = NoRequest]
    /\ UNCHANGED <<mainState, sharedState, heap, excel, phase, rcall, fdf, fcall, hcall>>

Serve == \E i \in 1..NReq : Begin(i) \/ CheckLoaded(i) \/ Run(i) \/ Aggregate(i) \/ Respond(i)

Next == Startup \/ StartupFails \/ Serve

Spec == Init /\ [][Next]_vars

----------------------------------------------------------------------------
(* The resolver on its own *)

InitResolve ==
    /\ rcall \in {[NoCall EXCEPT !.cols = S] : S \in ResolverFrames}
    /\ mainState = NoState
    /\ sharedState = NoState
    /\ heap = EmptyFrame
    /\ excel = NoFile
    /\ phase = "boot"
    /\ reqs = NoRequests
    /\ fdf = EmptyFrame
    /\ fcall = NoFilterCall
    /\ hcall = NoHandlerCall

\* one call resolve_column(df, preferred, logical_name), and the date resolution
\* every operation performs with the same override
Resolve ==
    /\ rcall.pc = "idle"
    /\ \E p \in ResolverOverrides, f \in ResolverFields :
         rcall' = [rcall EXCEPT !.pc = "done", !.preferred = p, !.logical_name = f,
                                !.out = resolve_column(rcall.cols, p, f),
                                !.date = resolve_date_column(rcall.cols, p)]
    /\ UNCHANGED <<processVars, fdf, fcall, hcall>>

\* the caller drops the result; the frame stays
ResolveReturn ==
    /\ rcall.pc = "done"
    /\ rcall' = [NoCall EXCEPT !.cols = rcall.cols]
    /\ UNCHANGED <<processVars, fdf, fcall, hcall>>

NextResolve == Resolve \/ ResolveReturn

SpecResolve == InitResolve /\ [][NextResolve]_vars

----------------------------------------------------------------------------
(* The filter engines on their own *)

InitFilter ==
    /\ fdf \in FilterFrames
    /\ fcall = NoFilterCall
    /\ hcall = NoHandlerCall
    /\ mainState = NoState
    /\ sharedState = NoState
    /\ heap = EmptyFrame
    /\ excel = NoFile
    /\ phase = "boot"
    /\ reqs = NoRequests
    /\ rcall = NoCall

\* one call of _apply_global_filters on a copy of the frame
ApplyFilter ==
    /\ fcall.pc = "idle"
    /\ \E engine \in Engines :
         \E c \in {Passed(engine, p) : p \in CriteriaPool} :
            fcall' = [pc |-> "done", engine |-> engine, c |-> c,
                      out |-> apply_global_filters(engine, fdf, c)]
    /\ UNCHANGED <<processVars, rcall, fdf, hcall>>

\* the handler returns; the frame is still the one loaded
FilterReturn ==
    /\ fcall.pc = "done"
    /\ fcall' = NoFilterCall
    /\ UNCHANGED <<processVars, rcall, fdf, hcall>>

NextFilter == ApplyFilter \/ FilterReturn

SpecFilter == InitFilter /\ [][NextFilter]_vars

----------------------------------------------------------------------------
(* desempenho_operacional.py: ops_kpis on a loaded frame *)

\* numpy.nanmean of a coerced column: NaN on no number at all
nanmean(cells) ==
    LET n == Cardinality({i \in 1..Len(cells) : cells[i].kind = "num"})
    IN  IF n = 0 THEN NA ELSE Num(SumCells(cells) \div n)

\* the share of deliveries made by their ETA plus grace_min, among the rows with both
\* values, in hundredths of a percent (100 % is 10000); 0.0 when there is no such row
on_time_rate_pct(rows, delivery, eta, grace_min) ==
    IF ~Truthy(delivery) \/ ~Truthy(eta) THEN 0
    ELSE
        LET d(i) == to_numeric(rows[i].cells[delivery])
            e(i) == to_numeric(rows[i].cells[eta])
            mask == {i \in 1..Len(rows) : d(i).kind = "num" /\ e(i).kind = "num"}
            on_time == {i \in mask : d(i).num <= e(i).num + grace_min}
        IN  IF mask = {} THEN 0 ELSE (Cardinality(on_time) * 10000) \div Cardinality(mask)

\* ops_kpis after its check, on a copy of the frame
ops_kpis(df, q) ==
    LET f == apply_global_filters_ops(df, q.c)
        prep == resolve_column(df.cols, q.prep_col, "tempo_preparo_minutos")
        delivery == Or(f.dlc, resolve_column(df.cols, q.c.delivery_col, "actual_delivery_minutes"))
        eta == Or(f.etc, resolve_column(df.cols, q.c.eta_col, "eta_minutes_quote"))
        distance == resolve_column(df.cols, q.distance_col, "distance_km")
        coerced(col) == [i \in 1..Len(f.rows) |-> to_numeric(f.rows[i].cells[col])]
        tempo_medio_preparo == IF Truthy(prep) THEN nanmean(coerced(prep)) ELSE Num(0)
        tempo_medio_entrega == IF Truthy(delivery) THEN nanmean(coerced(delivery)) ELSE Num(0)
        atraso_medio ==
            IF Truthy(delivery) /\ Truthy(eta)
            THEN nanmean([i \in 1..Len(f.rows) |-> Sub(coerced(delivery)[i], coerced(eta)[i])])
            ELSE Num(0)
        distancia_media == IF Truthy(distance) THEN nanmean(coerced(distance)) ELSE Num(0)
    IN  IF f.status # 200 THEN Response(f.status, f.detail, <<>>)
        ELSE Response(200, "",
                << [key |-> "tempo_medio_preparo", vals |-> <<tempo_medio_preparo>>],
                   [key |-> "tempo_medio_entrega", vals |-> <<tempo_medio_entrega>>],
                   [key |-> "atraso_medio", vals |-> <<atraso_medio>>],
                   [key |-> "distancia_media", vals |-> <<distancia_media>>],
                   [key |-> "on_time_rate_pct",
                    vals |-> <<Num(on_time_rate_pct(f.rows, delivery, eta, q.grace_min))>>] >>)

\* the group keys of the sheets, in the order groupby sorts them
GroupKeyOrder == <<"A", "B", "centro", "nan", "norte">>

\* sort_values("late_rate", ascending=False) of the groups, equal rates in key order
RECURSIVE SortByLateRate(_)
SortByLateRate(g) ==
    IF Len(g) = 0 THEN <<>>
    ELSE LET rest == SortByLateRate(Tail(g))
             before == {i \in 1..Len(rest) : rest[i].late_rate.num > g[1].late_rate.num}
         IN  Mask(rest, before) \o <<g[1]>> \o Mask(rest, (1..Len(rest)) \ before)

\* mutant: the rate is taken over the on-time rows
late_rate_over_on_time(late_count, total) ==
    IF total - late_count = 0 THEN 0 ELSE (late_count * 100) \div (total - late_count)

\* (late_count / total).replace({inf: nan}).fillna(0.0), in hundredths
late_rate(late_count, total) == IF total = 0 THEN 0 ELSE (late_count * 100) \div total

\* mutant: a delivery exactly at the threshold counts as late
late_rate_groups_late_at_threshold(rows, col, dlc, etc, threshold_min, name) ==
    LET d(i) == to_numeric(rows[i].cells[dlc])
        e(i) == to_numeric(rows[i].cells[etc])
        thr == IF IsNone(threshold_min) THEN 0 ELSE Val(threshold_min)
        late_mask == {i \in 1..Len(rows) : Ge(Sub(d(i), e(i)), thr)}
        label(i) == astype_str(rows[i].cells[col])
        keys == SelectSeq(GroupKeyOrder, LAMBDA k : \E i \in 1..Len(rows) : label(i) = k)
        g == [j \in 1..Len(keys) |->
                LET members == {i \in 1..Len(rows) : label(i) = keys[j]}
                    total == Cardinality(members)
                    late_count == Cardinality(members \cap late_mask)
                IN  (name :> Txt(keys[j])) @@
                    [late_count |-> Num(late_count * 100),
                     on_time_count |-> Num((total - late_count) * 100),
                     late_rate |-> Num(late_rate(late_count, total))]]
    IN  SortByLateRate(g)

\* the late-rate handlers from `d = pd.to_numeric(...)` on: the rows of the response, one
\* per value of the grouping column as a string, named `name` in the response
late_rate_groups(rows, col, dlc, etc, threshold_min, name) ==
    LET d(i) == to_numeric(rows[i].cells[dlc])
        e(i) == to_numeric(rows[i].cells[etc])
        thr == IF IsNone(threshold_min) THEN 0 ELSE Val(threshold_min)
        late_mask == {i \in 1..Len(rows) : Gt(Sub(d(i), e(i)), thr)}
        label(i) == astype_str(rows[i].cells[col])
        keys == SelectSeq(GroupKeyOrder, LAMBDA k : \E i \in 1..Len(rows) : label(i) = k)
        g == [j \in 1..Len(keys) |->
                LET members == {i \in 1..Len(rows) : label(i) = keys[j]}
                    total == Cardinality(members)
                    late_count == Cardinality(members \cap late_mask)
                IN  (name :> Txt(keys[j])) @@
                    [late_count |-> Num(late_count * 100),
                     on_time_count |-> Num((total - late_count) * 100),
                     late_rate |-> Num(late_rate(late_count, total))]]
    IN  SortByLateRate(g)

\* late_rate_by_macro after its check, on a copy of the frame
late_rate_by_macro(df, q) ==
    LET f == apply_global_filters_ops(df, [q.c EXCEPT !.delivery_status = NoneStr])
    IN  IF f.status # 200 THEN Response(f.status, f.detail, <<>>)
        ELSE IF ~Truthy(f.mcc) \/ ~Truthy(f.dlc) \/ ~Truthy(f.etc)
        THEN Response(400, "Colunas de macro_bairro/entrega/eta nao encontradas.", <<>>)
        ELSE Response(200, "",
                late_rate_groups(f.rows, f.mcc, f.dlc, f.etc, q.c.threshold_min, "macro_bairro"))

\* late_rate_by_platform after its check, on a copy of the frame
late_rate_by_platform(df, q) ==
    LET f == apply_global_filters_ops(df, [q.c EXCEPT !.delivery_status = NoneStr])
    IN  IF f.status # 200 THEN Response(f.status, f.detail, <<>>)
        ELSE IF ~Truthy(f.plc) \/ ~Truthy(f.dlc) \/ ~Truthy(f.etc)
        THEN Response(400, "Colunas de plataforma/entrega/eta nao encontradas.", <<>>)
        ELSE Response(200, "",
                late_rate_groups(f.rows, f.plc, f.dlc, f.etc, q.c.threshold_min, "platform"))

\* resample("D")["v"].mean() of dated values: one bucket per calendar day from the first
\* to the last date, the mean of the day's values, NaN for a day without a value
resample_daily_mean(dated) ==
    LET days == {dated[i].dt.num \div 24 : i \in 1..Len(dated)}
        first == Min(days)
        last == CHOOSE x \in days : \A y \in days : y <= x
    IN  IF Len(dated) = 0 THEN <<>>
        ELSE [b \in 1..(last - first + 1) |->
                [date |-> Dt((first + b - 1) * 24),
                 avg_delivery_minutes |->
                    LET day == Mask(dated, {i \in 1..Len(dated) : dated[i].dt.num \div 24 = first + b - 1})
                    IN  nanmean([i \in 1..Len(day) |-> day[i].v])]]

\* ops_timeseries_delivery (freq "D") after its check, on the loaded frame itself
ops_timeseries_delivery(df, q) ==
    LET dt_col == Or(resolve_column(df.cols, q.c.date_col, "order_datetime"),
                     resolve_column(df.cols, q.c.date_col, "order_date"))
        delivery == resolve_column(df.cols, q.c.delivery_col, "actual_delivery_minutes")
        sdt == ensure_datetime(df.rows, dt_col)
        frame == [i \in 1..Len(df.rows) |-> [dt |-> sdt[i], v |-> to_numeric(df.rows[i].cells[delivery])]]
        dropna == Mask(frame, {i \in 1..Len(frame) : frame[i].dt.kind # "na" /\ frame[i].v.kind # "na"})
    IN  IF ~Truthy(dt_col) \/ ~Truthy(delivery)
        THEN Response(400, "Colunas de data/tempo de entrega nao encontradas.", <<>>)
        ELSE Response(200, "", resample_daily_mean(dropna))

\* what a sheet says of one delivery
DeliveryPool ==
    { [date |-> Dt(0), platform |-> Txt("A"), macro |-> Txt("centro"),
       delivery |-> Num(3000), eta |-> Num(2500), prep |-> Num(1000), km |-> Num(300)],
      [date |-> Dt(61), platform |-> Txt("A"), macro |-> Txt("norte"),
       delivery |-> Num(2000), eta |-> Num(2500), prep |-> Num(1200), km |-> NA],
      [date |-> Txt("2024-01-03"), platform |-> Txt("B"), macro |-> Txt("centro"),
       delivery |-> Num(4000), eta |-> Num(2000), prep |-> NA, km |-> Num(550)],
      [date |-> Dt(12), platform |-> NA, macro |-> Txt("norte"),
       delivery |-> Txt("erro"), eta |-> Num(2500), prep |-> Txt("4.5"), km |-> Num(120)],
      [date |-> NA, platform |-> Txt("B"), macro |-> NA,
       delivery |-> Num(2501), eta |-> Num(2500), prep |-> Num(900), km |-> Txt("longe")] }

OpsSheetCanonical ==
    [order_datetime |-> "date", platform |-> "platform", macro_bairro |-> "macro",
     actual_delivery_minutes |-> "delivery", eta_minutes_quote |-> "eta",
     tempo_preparo_minutos |-> "prep", distance_km |-> "km"]

OpsSheetNoEta == [bairro |-> "macro", delivery_minutes |-> "delivery", preparo_min |-> "prep"]

OpsFrames ==
    {MakeFrame(sh, os) : sh \in {OpsSheetCanonical, OpsSheetNoEta},
                         os \in UNION {[1..n -> DeliveryPool] : n \in 0..MaxDeliveries}}

\* the requests to /kpis: a delivery status, a threshold for it, a grace for the rate
OpsQueries ==
    {[NoOpsQuery EXCEPT !.c.delivery_status = st, !.c.threshold_min = thr, !.grace_min = g]
        : st \in {NoneStr, "atrasado", "no_prazo", "foo"},
          thr \in {NoneNum, Some(0), Some(1), Some(500), Some(0 - 500)},
          g \in {0, 1, 500}}

\* the requests to the late-rate handlers: a threshold, a platform filter and, where the
\* handler declares the parameter, a delivery status
LateRateQueries ==
    {[NoOpsQuery EXCEPT !.c.delivery_status = st, !.c.threshold_min = thr, !.c.platform = pl]
        : st \in {NoneStr, "atrasado", "no_prazo", "foo"},
          thr \in {NoneNum, Some(0), Some(500), Some(0 - 500)},
          pl \in {NoneList, List(<<"A">>)}}

InitOps ==
    /\ fdf \in OpsFrames
    /\ hcall = NoHandlerCall
    /\ mainState = NoState
    /\ sharedState = NoState
    /\ heap = EmptyFrame
    /\ excel = NoFile
    /\ phase = "boot"
    /\ reqs = NoRequests
    /\ rcall = NoCall
    /\ fcall = NoFilterCall

\* one request to /kpis of the ops router, served on a copy of the frame
OpsKpis ==
    /\ hcall.pc = "idle"
    /\ \E q \in OpsQueries :
         hcall' = [pc |-> "done", handler |-> "ops_kpis", q |-> q, resp |-> ops_kpis(fdf, q)]
    /\ UNCHANGED <<processVars, rcall, fdf, fcall>>

\* one request to /late_rate_by_macro
LateRateByMacro ==
    /\ hcall.pc = "idle"
    /\ \E q \in LateRateQueries :
         hcall' = [pc |-> "done", handler |-> "late_rate_by_macro", q |-> q,
                   resp |-> late_rate_by_macro(fdf, q)]
    /\ UNCHANGED <<processVars, rcall, fdf, fcall>>

\* one request to /late_rate_by_platform, which declares no delivery_status
LateRateByPlatform ==
    /\ hcall.pc = "idle"
    /\ \E q \in {l \in LateRateQueries : l.c.delivery_status = NoneStr} :
         hcall' = [pc |-> "done", handler |-> "late_rate_by_platform", q |-> q,
                   resp |-> late_rate_by_platform(fdf, q)]
    /\ UNCHANGED <<processVars, rcall, fdf, fcall>>

\* one request to /timeseries_delivery, which takes no filter
OpsTimeseriesDelivery ==
    /\ hcall.pc = "idle"
    /\ \E q \in {[NoOpsQuery EXCEPT !.c.date_col = dc] : dc \in {NoneStr, "macro_bairro"}} :
         hcall' = [pc |-> "done", handler |-> "ops_timeseries_delivery", q |-> q,
                   resp |-> ops_timeseries_delivery(fdf, q)]
    /\ UNCHANGED <<processVars, rcall, fdf, fcall>>

\* the response is sent; the frame is still the one loaded
OpsReturn ==
    /\ hcall.pc = "done"
    /\ hcall' = NoHandlerCall
    /\ UNCHANGED <<processVars, rcall, fdf, fcall>>

NextOps == OpsKpis \/ OpsTimeseriesDelivery \/ LateRateByMacro \/ LateRateByPlatform \/ OpsReturn

SpecOps == InitOps /\ [][NextOps]_vars

----------------------------------------------------------------------------
(* Handlers over the orders' totals: main.py, financeiro.py, visao_geral.py *)

\* the query of such a handler: the filters and the handler's own parameters
NoSalesQuery ==
    [c |-> NoCriteria, total_col |-> NoneStr, pct_col |-> NoneStr, client_col |-> NoneStr,
     items_col |-> NoneStr, class_col |-> NoneStr, bins |-> 15, top_n |-> 10]

\* FastAPI's answer to a parameter outside its declared range
ValidationError == Response(422, "value is not within the declared range", <<>>)

\* sort_values(col, ascending=False) of rows with numeric col, equal values in their order
RECURSIVE SortDescendingBy(_, _)
SortDescendingBy(g, col) ==
    IF Len(g) = 0 THEN <<>>
    ELSE LET rest == SortDescendingBy(Tail(g), col)
             before == {i \in 1..Len(rest) : rest[i][col].num > g[1][col].num}
         IN  Mask(rest, before) \o <<g[1]>> \o Mask(rest, (1..Len(rest)) \ before)

\* df.groupby(by)[col].sum().reset_index(name=name): one row per key in keyOrder that some
\* row carries (rows with a missing key are dropped), NaN skipped in the sum
groupby_sum(labels, cells, keyOrder, by, name) ==
    LET keys == SelectSeq(keyOrder, LAMBDA k : \E i \in 1..Len(labels) : labels[i] = Txt(k))
    IN  [j \in 1..Len(keys) |->
            (by :> Txt(keys[j])) @@
            (name :> Num(SumCells(Mask(cells, {i \in 1..Len(labels) : labels[i] = Txt(keys[j])}))))]

\* the client names of the sheets, in the order groupby sorts them
ClientOrder == <<"ana", "bia">>

\* main.py finance_top_clients, after its check, on the loaded frame itself
main_finance_top_clients(df, q) ==
    LET client == resolve_column(df.cols, q.client_col, "cliente_id")
        total_brl_col == resolve_column(df.cols, q.total_col, "total_brl")
        g == groupby_sum(Column(df.rows, client), Column(df.rows, total_brl_col), ClientOrder, client, "spent")
    IN  IF ~Truthy(client) \/ ~Truthy(total_brl_col)
        THEN Response(400, "Colunas de cliente/total_brl nao encontradas.", <<>>)
        ELSE Response(200, "", SubSeq(SortDescendingBy(g, "spent"), 1, Min({q.top_n, Len(g)})))

\* financeiro.py finance_top_clients, after its check, on a copy of the frame
finance_top_clients(df, q) ==
    LET f == apply_global_filters_finance(df, q.c)
        names == <<"cliente_nome", "customer_name", "nome_cliente", "cliente", "user_name">>
        found == SelectSeq(names, LAMBDA cand : cand \in df.cols)
        client == Or(resolve_column(df.cols, q.client_col, "cliente_id"),
                     IF Len(found) > 0 THEN found[1] ELSE NoneStr)
        total_brl_col == resolve_column(df.cols, q.total_col, "total_brl")
        g == groupby_sum(Column(f.rows, client), Column(f.rows, total_brl_col), ClientOrder, client, "spent")
    IN  IF f.status # 200 THEN Response(f.status, f.detail, <<>>)
        ELSE IF ~Truthy(total_brl_col) THEN Response(400, "Coluna total_brl nao encontrada.", <<>>)
        ELSE IF ~Truthy(client) THEN Response(200, "", <<>>)
        ELSE Response(200, "", SubSeq(SortDescendingBy(g, "spent"), 1, Min({q.top_n, Len(g)})))

\* categorize(num) of finance_revenue_by_item_class_barplot, num in hundredths (the
\* label of the third class is written without its accent)
categorize(num) == IF num <= 100 THEN "individual" ELSE IF num <= 300 THEN "combo" ELSE "familia"

\* finance_revenue_by_item_class_barplot without class_col, after its check, on a copy
finance_revenue_by_item_class_barplot(df, q) ==
    LET f == apply_global_filters_finance(df, q.c)
        total_brl_col == resolve_column(df.cols, q.total_col, "total_brl")
        items_col_resolved == resolve_column(df.cols, q.items_col, "num_itens")
        items == [i \in 1..Len(f.rows) |->
                    LET n == to_numeric(f.rows[i].cells[items_col_resolved])
                    IN  IF n.kind = "na" THEN 0 ELSE n.num]
        item_class == [i \in 1..Len(f.rows) |-> Txt(categorize(items[i]))]
        g == groupby_sum(item_class, Column(f.rows, total_brl_col),
                         <<"individual", "combo", "familia">>, "classe", "revenue")
    IN  IF f.status # 200 THEN Response(f.status, f.detail, <<>>)
        ELSE IF ~Truthy(total_brl_col) THEN Response(400, "Coluna total_brl nao encontrada.", <<>>)
        ELSE IF ~Truthy(items_col_resolved)
        THEN Response(400, "Coluna num_itens nao encontrada para categorizacao automatica.", <<>>)
        ELSE Response(200, "", g)

\* mutant: the last bin is open on the right, as the others are
histogram_last_bin_open(ticket, bins) ==
    LET values == Range(ticket)
        least == Min(values)
        greatest == CHOOSE x \in values : \A y \in values : y <= x
        lo == IF least = greatest THEN least - 50 ELSE least
        hi == IF least = greatest THEN greatest + 50 ELSE greatest
        edge(i) == lo + (i * (hi - lo)) \div bins
        bin(v) == ((v - lo) * bins) \div (hi - lo) + 1
    IN  [b \in 1..bins |->
            [bin_start |-> Num(edge(b - 1)), bin_end |-> Num(edge(b)),
             count |-> Num(Cardinality({i \in 1..Len(ticket) : bin(ticket[i]) = b}) * 100)]]

\* np.histogram(ticket, bins): equal-width bins from the least to the greatest value (from
\* value - 0.5 to value + 0.5 when they are equal), the last bin closed on the right; the
\* edges are kept to the hundredth
histogram(ticket, bins) ==
    LET values == Range(ticket)
        least == Min(values)
        greatest == CHOOSE x \in values : \A y \in values : y <= x
        lo == IF least = greatest THEN least - 50 ELSE least
        hi == IF least = greatest THEN greatest + 50 ELSE greatest
        edge(i) == lo + (i * (hi - lo)) \div bins
        bin(v) == IF v = hi THEN bins ELSE ((v - lo) * bins) \div (hi - lo) + 1
    IN  [b \in 1..bins |->
            [bin_start |-> Num(edge(b - 1)), bin_end |-> Num(edge(b)),
             count |-> Num(Cardinality({i \in 1..Len(ticket) : bin(ticket[i]) = b}) * 100)]]

\* overview_ticket_histogram, after its check, on a copy of the frame
overview_ticket_histogram(df, q) ==
    LET f == apply_global_filters_overview(df, q.c)
        total_brl_col == resolve_column(df.cols, q.total_col, "total_brl")
        num_itens_col == resolve_column(df.cols, q.items_col, "num_itens")
        total_brl(i) == to_numeric(f.rows[i].cells[total_brl_col])
        num_itens(i) == to_numeric(f.rows[i].cells[num_itens_col])
        mask == {i \in 1..Len(f.rows) : num_itens(i).kind = "num" /\ num_itens(i).num > 0}
        valid == Mask([i \in 1..Len(f.rows) |-> i], {i \in mask : total_brl(i).kind = "num"})
        ticket == [j \in 1..Len(valid) |-> (total_brl(valid[j]).num * 100) \div num_itens(valid[j]).num]
    IN  IF q.bins < 3 \/ q.bins > 100 THEN ValidationError
        ELSE IF f.status # 200 THEN Response(f.status, f.detail, <<>>)
        ELSE IF ~Truthy(total_brl_col) \/ ~Truthy(num_itens_col)
        THEN Response(400, "Colunas total_brl/num_itens nao encontradas.", <<>>)
        ELSE IF Len(ticket) = 0 THEN Response(200, "", <<>>)
        ELSE Response(200, "", histogram(ticket, q.bins))

\* what a sheet says of one order: who bought, the total, the total as it was typed, the items
SalesPool ==
    { [client |-> Txt("ana"), total |-> Num(1000), raw |-> Num(1000), items |-> Num(100)],
      [client |-> Txt("bia"), total |-> Num(2000), raw |-> Num(2000), items |-> Num(200)],
      [client |-> Txt("ana"), total |-> Num(2000), raw |-> Txt("erro"), items |-> Num(100)],
      [client |-> Txt("bia"), total |-> Num(12000), raw |-> Num(12000), items |-> Num(400)],
      [client |-> NA, total |-> Num(500), raw |-> NA, items |-> Num(0)],
      [client |-> Txt("ana"), total |-> NA, raw |-> Num(700), items |-> NA] }

SalesSheets ==
    { [cliente_id |-> "client", total_brl |-> "total", valor_digitado |-> "raw", num_itens |-> "items"],
      [valor_total |-> "total", valor_digitado |-> "raw", qtd_itens |-> "items"] }

SalesSheetNoTotal == [cliente_id |-> "client", valor_digitado |-> "raw"]

SalesFrames ==
    {MakeFrame(sh, os) : sh \in SalesSheets, os \in UNION {[1..n -> SalesPool] : n \in 0..MaxOrders}}
    \cup {MakeFrame(SalesSheetNoTotal, os) : os \in UNION {[1..n -> SalesPool] : n \in 0..1}}

InitSales ==
    /\ fdf \in SalesFrames
    /\ hcall = NoHandlerCall
    /\ mainState = NoState
    /\ sharedState = NoState
    /\ heap = EmptyFrame
    /\ excel = NoFile
    /\ phase = "boot"
    /\ reqs = NoRequests
    /\ rcall = NoCall
    /\ fcall = NoFilterCall

\* one request to /api/dashboard/finance/kpis, the total read from the default column or
\* from the column named in total_col
FinanceKpis ==
    /\ hcall.pc = "idle"
    /\ \E t \in {NoneStr, "valor_digitado"} :
         LET q == [NoSalesQuery EXCEPT !.total_col = t]
         IN  hcall' = [pc |-> "done", handler |-> "finance_kpis", q |-> q, resp |-> finance_kpis(fdf, q)]
    /\ UNCHANGED <<processVars, rcall, fdf, fcall>>

\* one request to /api/dashboard/finance/top_clients, which main.py serves
MainTopClients ==
    /\ hcall.pc = "idle"
    /\ \E n \in {1, 10} :
         LET q == [NoSalesQuery EXCEPT !.top_n = n]
         IN  hcall' = [pc |-> "done", handler |-> "main.finance_top_clients", q |-> q,
                       resp |-> main_finance_top_clients(fdf, q)]
    /\ UNCHANGED <<processVars, rcall, fdf, fcall>>

\* one call of the finance router's /top_clients
RouterTopClients ==
    /\ hcall.pc = "idle"
    /\ \E n \in {1, 10} :
         LET q == [NoSalesQuery EXCEPT !.top_n = n]
         IN  hcall' = [pc |-> "done", handler |-> "financeiro.finance_top_clients", q |-> q,
                       resp |-> finance_top_clients(fdf, q)]
    /\ UNCHANGED <<processVars, rcall, fdf, fcall>>

\* one call of the finance router's /revenue_by_item_class_barplot, no class_col given
ItemClassBarplot ==
    /\ hcall.pc = "idle"
    /\ hcall' = [pc |-> "done", handler |-> "finance_revenue_by_item_class_barplot", q |-> NoSalesQuery,
                 resp |-> finance_revenue_by_item_class_barplot(fdf, NoSalesQuery)]
    /\ UNCHANGED <<processVars, rcall, fdf, fcall>>

\* one request to /ticket_histogram of the overview router
TicketHistogram ==
    /\ hcall.pc = "idle"
    /\ \E b \in {2, 3, 4} :
         LET q == [NoSalesQuery EXCEPT !.bins = b]
         IN  hcall' = [pc |-> "done", handler |-> "overview_ticket_histogram", q |-> q,
                       resp |-> overview_ticket_histogram(fdf, q)]
    /\ UNCHANGED <<processVars, rcall, fdf, fcall>>

\* the response is sent
SalesReturn ==
    /\ hcall.pc = "done"
    /\ hcall' = NoHandlerCall
    /\ UNCHANGED <<processVars, rcall, fdf, fcall>>

NextSales ==
    FinanceKpis \/ MainTopClients \/ RouterTopClients \/ ItemClassBarplot \/ TicketHistogram \/ SalesReturn

SpecSales == InitSales /\ [][NextSales]_vars

----------------------------------------------------------------------------
(* Properties of the process, under Spec *)

Slots == 1..NReq

\* C1: once on_startup has completed, the holder every aggregation operation reads (the
\* ops and overview routers read the state of app.shared) holds the loaded dataset, and
\* no request fails with "dataset not loaded"
C1_EveryHolderLoadedAfterStartup ==
    phase = "serving" =>
        /\ \A e \in Endpoints : Holder(e).df = Loaded
        /\ \A i \in Slots : reqs[i].pc = "done" => reqs[i].resp # NotLoaded

C3_DatasetAsLoaded ==
    phase = "serving" =>
        /\ heap = load_excel(excel).df
        /\ mainState = [df |-> Loaded, cols |-> excel.frame.cols, total_rows |-> Len(excel.frame.rows)]
        /\ sharedState = NoState

\* a request that derived a column and grouped has answered 200, and another has failed
C3_Witness ==
    \E i, j \in Slots :
        /\ i # j
        /\ reqs[i].pc = "done"
        /\ reqs[i].endpoint = "finance_margin_by_platform"
        /\ reqs[i].resp.status = 200
        /\ Len(reqs[i].resp.data) > 1
        /\ reqs[j].pc = "done"
        /\ reqs[j].resp.status >= 400

\* the response of a request served alone right after startup: the handler run to its end
\* on the frame load_excel built (a router's handler ends at its check, the holder of
\* app.shared being empty for the life of the process)
Alone(endpoint, q) ==
    LET raised == require_loaded(Holder(endpoint).df, q.c)
    IN  IF raised # <<>> THEN raised[1]
        ELSE IF endpoint = "finance_kpis" THEN finance_kpis(load_excel(excel).df, q)
        ELSE finance_margin_by_platform(load_excel(excel).df, q)

\* C4: however the steps of the requests interleave, each response is the one the same
\* request gets when it is served alone on the same dataset
C4_ResponseAsServedAlone ==
    \A i \in Slots : reqs[i].pc = "done" => reqs[i].resp = Alone(reqs[i].endpoint, reqs[i].q)

\* finance_kpis, asked to total a column named "net", has read the dataset and answered
\* while finance_margin_by_platform stood between deriving its "net" column and grouping
C4_Witness ==
    \E i, j \in Slots :
        /\ i # j
        /\ reqs[i].pc = "agg"
        /\ "net" \in reqs[i].tmp.frame.cols
        /\ reqs[j].pc = "done"
        /\ reqs[j].overlap
        /\ reqs[j].endpoint = "finance_kpis"
        /\ reqs[j].q.total_col = "net"
        /\ reqs[j].resp.status = 200
        /\ reqs[j].resp.data[1].vals[1] = Num(7000)

----------------------------------------------------------------------------
(* Properties of the resolver, under SpecResolve *)

Present(cols, logical_name) == {i \in 1..Len(AliasesOf(logical_name)) : AliasesOf(logical_name)[i] \in cols}

\* C5: when the override is a column of the frame and an alias of the field is
\* one too, resolve_column returns the override; an empty or absent override is
\* never the result (the result is then an alias present in the frame, or None).
C5_OverridePrecedence ==
    rcall.pc = "done" =>
        /\ (Truthy(rcall.preferred) /\ rcall.preferred \in rcall.cols
              /\ Present(rcall.cols, rcall.logical_name) # {})
            => rcall.out = rcall.preferred
        /\ ~Truthy(rcall.preferred)
            => /\ rcall.out # ""
               /\ rcall.out = NoneStr
                    \/ rcall.out \in Range(AliasesOf(rcall.logical_name)) \cap rcall.cols

C5_Witness ==
    /\ rcall.pc = "done"
    /\ rcall.preferred = "canal"
    /\ rcall.logical_name = "platform"
    /\ {"canal", "platform", "plataforma"} \subseteq rcall.cols
    /\ rcall.out = "canal"

\* C6: when the override is absent, empty or not a column, resolve_column
\* returns the first alias of the field, in table order, that is a column (also
\* when earlier aliases are absent), and None when no alias is a column or the
\* field has no alias list; the result is always None or a column of the frame.
C6_FirstAliasOrNone ==
    rcall.pc = "done" =>
        /\ (~Truthy(rcall.preferred) \/ rcall.preferred \notin rcall.cols) =>
             LET al == AliasesOf(rcall.logical_name)
                 present == Present(rcall.cols, rcall.logical_name)
             IN  IF present = {}
                 THEN rcall.out = NoneStr
                 ELSE \E i \in present :
                        /\ rcall.out = al[i]
                        /\ \A j \in 1..(i - 1) : al[j] \notin rcall.cols
        /\ rcall.out = NoneStr \/ rcall.out \in rcall.cols

C6_Witness ==
    /\ rcall.pc = "done"
    /\ rcall.preferred = "ghost"
    /\ rcall.logical_name = "satisfacao_nivel"
    /\ {"satisfacao", "nota"} \subseteq rcall.cols
    /\ rcall.out = "satisfacao"

\* C8: the date column is what order_datetime resolves to, and what order_date
\* resolves to only when order_datetime resolves to nothing, the same override
\* given to both; with no usable override, a frame holding an order_datetime
\* alias and a column that is only an order_date alias yields the first
\* order_datetime alias present, never the order_date one.
C8_DatetimeBeforeDate ==
    rcall.pc = "done" =>
        LET dt == resolve_column(rcall.cols, rcall.preferred, "order_datetime")
            d == resolve_column(rcall.cols, rcall.preferred, "order_date")
            al == AliasesOf("order_datetime")
            present == Present(rcall.cols, "order_datetime")
        IN  /\ rcall.date = (IF dt # NoneStr THEN dt ELSE d)
            /\ (present # {} /\ (~Truthy(rcall.preferred) \/ rcall.preferred \notin rcall.cols))
                => rcall.date = al[Min(present)]
            /\ (Truthy(rcall.preferred) /\ rcall.preferred \in rcall.cols)
                => rcall.date = rcall.preferred

C8_Witness ==
    /\ rcall.pc = "done"
    /\ ~Truthy(rcall.preferred)
    /\ {"created_at", "data"} \subseteq rcall.cols
    /\ "order_date" \notin rcall.cols
    /\ rcall.date = "created_at"

----------------------------------------------------------------------------
(* Properties of the filter engines, under SpecFilter *)

OverrideParameters ==
    {"date_col", "platform_col", "macro_col", "classe_col", "score_col", "delivery_col", "eta_col"}

\* the overrides of the call that name no column of the frame
GhostOverrides == {f \in OverrideParameters : Truthy(fcall.c[f]) /\ fcall.c[f] \notin fdf.cols}

\* C7, as claimed: a call whose override names a column the frame does not have
\* ends in a 400.
C7_GhostOverrideIs400 ==
    (fcall.pc = "done" /\ GhostOverrides # {}) => fcall.out.status = 400

\* C7, amended: an override that names no column of the frame is ignored; the
\* engine ends as it does without that override (same status, same rows, same
\* resolved columns), and a 400 for a missing column means that no alias of the
\* field is a column either.
C7_GhostOverrideIgnored ==
    (fcall.pc = "done" /\ GhostOverrides # {}) =>
        /\ \A f \in GhostOverrides :
             fcall.out = apply_global_filters(fcall.engine, fdf, [fcall.c EXCEPT ![f] = NoneStr])
        /\ fcall.out.detail = PlatformDetail => Present(fdf.cols, "platform") = {}
        /\ fcall.out.detail = "Coluna de data nao encontrada para aplicar filtro."
             => Present(fdf.cols, "order_datetime") \cup Present(fdf.cols, "order_date") = {}

C7_Witness ==
    /\ fcall.pc = "done"
    /\ fcall.c.platform_col = "ghost"
    /\ fcall.c.platform = List(<<"ifood">>)
    /\ fcall.out.status = 200
    /\ fcall.out.plc = "plataforma"
    /\ Len(fdf.rows) = 2
    /\ Len(fcall.out.rows) = 1

\* a criterion the request carries
DateSupplied(c) == Truthy(c.start_date) \/ Truthy(c.end_date)
ListSupplied(l) == ~l.none /\ Len(l.items) > 0
ScoreSupplied(c) == ~IsNone(c.score_min) \/ ~IsNone(c.score_max)
StatusSupplied(c) == Truthy(c.delivery_status)

\* a row meets every criterion the request carries, each criterion read on the
\* column its field resolves to (a score range on a frame without a score
\* column asks nothing)
MeetsCriteria(row, cols, c) ==
    LET dtc == resolve_date_column(cols, c.date_col)
        plc == resolve_column(cols, c.platform_col, "platform")
        mcc == resolve_column(cols, c.macro_col, "macro_bairro")
        cpc == resolve_column(cols, c.classe_col, "order_mode")
        scc == resolve_column(cols, c.score_col, "satisfacao_nivel")
        dlc == resolve_column(cols, c.delivery_col, "actual_delivery_minutes")
        etc == resolve_column(cols, c.eta_col, "eta_minutes_quote")
        when == to_datetime(row.cells[dtc])
        score == to_numeric(row.cells[scc])
        d == to_numeric(row.cells[dlc])
        e == to_numeric(row.cells[etc])
        lo == IF IsNone(c.score_min) THEN 100 ELSE Val(c.score_min)
        hi == IF IsNone(c.score_max) THEN 500 ELSE Val(c.score_max)
        thr == IF IsNone(c.threshold_min) THEN 0 ELSE Val(c.threshold_min)
    IN  /\ Truthy(c.start_date) => when.kind = "dt" /\ when.num >= DateTokens[c.start_date]
        /\ Truthy(c.end_date) => when.kind = "dt" /\ when.num <= DateTokens[c.end_date]
        /\ ListSupplied(c.platform) => astype_str(row.cells[plc]) \in Range(c.platform.items)
        /\ ListSupplied(c.macro_bairro) => astype_str(row.cells[mcc]) \in Range(c.macro_bairro.items)
        /\ ListSupplied(c.classe_pedido) => astype_str(row.cells[cpc]) \in Range(c.classe_pedido.items)
        /\ (ScoreSupplied(c) /\ scc # NoneStr) => score.kind = "num" /\ lo <= score.num /\ score.num <= hi
        /\ c.delivery_status = "atrasado" => d.kind = "num" /\ e.kind = "num" /\ d.num - e.num > thr
        /\ c.delivery_status = "no_prazo" => d.kind = "num" /\ e.kind = "num" /\ d.num - e.num <= thr

MeetingRows(df, c) ==
    LET Meets(row) == MeetsCriteria(row, df.cols, c) IN SelectSeq(df.rows, Meets)

\* C9: an engine that returns, returns exactly the rows of the frame that meet
\* every criterion of the request, in the frame's order, each once.
C9_ExactlyTheMeetingRows ==
    (fcall.pc = "done" /\ fcall.out.status = 200) => fcall.out.rows = MeetingRows(fdf, fcall.c)

\* the same, of the engines of visao_geral, desempenho_operacional and financeiro
C9_ExactlyTheMeetingRows_ThreeEngines ==
    (fcall.pc = "done" /\ fcall.engine # "satisfaction" /\ fcall.out.status = 200)
        => fcall.out.rows = MeetingRows(fdf, fcall.c)

\* the request carries no date bound, no accepted values, no score bound and no
\* delivery status
NothingSupplied(c) ==
    /\ ~DateSupplied(c)
    /\ ~ListSupplied(c.platform) /\ ~ListSupplied(c.macro_bairro) /\ ~ListSupplied(c.classe_pedido)
    /\ ~ScoreSupplied(c)
    /\ ~StatusSupplied(c)

\* C10: a request that carries no criterion gets every row of the frame back
\* from each of the four engines, and no error.
C10_NothingSuppliedKeepsAll ==
    (fcall.pc = "done" /\ NothingSupplied(fcall.c))
        => fcall.out.status = 200 /\ fcall.out.rows = fdf.rows

\* the same, of the engines of visao_geral, desempenho_operacional and financeiro
C10_NothingSuppliedKeepsAll_ThreeEngines ==
    (fcall.pc = "done" /\ fcall.engine # "satisfaction" /\ NothingSupplied(fcall.c))
        => fcall.out.status = 200 /\ fcall.out.rows = fdf.rows

\* the frame an engine's output is: the columns of df, the rows returned
Narrowed(df, out) == [cols |-> df.cols, rows |-> out.rows]

DateThenPlatform(df, c) ==
    isin_filter(date_range_filter(Running(df.rows), resolve_date_column(df.cols, c.date_col),
                                  c.start_date, c.end_date),
                resolve_column(df.cols, c.platform_col, "platform"), c.platform, PlatformDetail)

PlatformThenDate(df, c) ==
    date_range_filter(isin_filter(Running(df.rows), resolve_column(df.cols, c.platform_col, "platform"),
                                  c.platform, PlatformDetail),
                      resolve_date_column(df.cols, c.date_col), c.start_date, c.end_date)

\* the request carries a date bound and a platform list and nothing else
OnlyDateAndPlatform(c) ==
    /\ DateSupplied(c) /\ ListSupplied(c.platform)
    /\ ~ListSupplied(c.macro_bairro) /\ ~ListSupplied(c.classe_pedido)
    /\ ~ScoreSupplied(c) /\ ~StatusSupplied(c)

UnresolvedCriterion(df, c) ==
    \/ DateSupplied(c) /\ ~Truthy(resolve_date_column(df.cols, c.date_col))
    \/ ListSupplied(c.platform) /\ ~Truthy(resolve_column(df.cols, c.platform_col, "platform"))
    \/ ListSupplied(c.macro_bairro) /\ ~Truthy(resolve_column(df.cols, c.macro_col, "macro_bairro"))
    \/ ListSupplied(c.classe_pedido) /\ ~Truthy(resolve_column(df.cols, c.classe_col, "order_mode"))
    \/ StatusSupplied(c) /\ (\/ ~Truthy(resolve_column(df.cols, c.delivery_col, "actual_delivery_minutes"))
                             \/ ~Truthy(resolve_column(df.cols, c.eta_col, "eta_minutes_quote")))

\* a value of the request that an engine rejects with 422
InvalidValue(c) ==
    \/ Truthy(c.start_date) /\ IsNone(parse_datetime(c.start_date))
    \/ Truthy(c.end_date) /\ IsNone(parse_datetime(c.end_date))
    \/ (IF IsNone(c.score_min) THEN 100 ELSE Val(c.score_min)) > (IF IsNone(c.score_max) THEN 500 ELSE Val(c.score_max))
    \/ StatusSupplied(c) /\ c.delivery_status \notin {"atrasado", "no_prazo"}

\* C13 as stated: a supplied date bound, accepted-value list or delivery status whose
\* column does not resolve makes the engine fail with 400, and no rows are returned.
C13_UnresolvedCriterionIs400 ==
    (fcall.pc = "done" /\ UnresolvedCriterion(fdf, fcall.c)) =>
        fcall.out.status = 400 /\ fcall.out.rows = <<>>

\* C13, amended: such a criterion is never skipped: the engine fails with a client error
\* and returns no rows; the error is the 400 of the missing column unless a value of the
\* request is one the engine rejects with 422 (a date bound that does not parse,
\* score_min above score_max, a delivery status other than atrasado and no_prazo), in
\* which case it is the 400 or that 422, whichever check the engine reaches first.
C13_UnresolvedCriterionIsClientError ==
    (fcall.pc = "done" /\ UnresolvedCriterion(fdf, fcall.c)) =>
        /\ fcall.out.rows = <<>>
        /\ fcall.out.status \in {400, 422}
        /\ ~InvalidValue(fcall.c) => fcall.out.status = 400

\* a platform list on a frame with rows and no platform column is answered 400
C13_Witness ==
    /\ fcall.pc = "done"
    /\ ListSupplied(fcall.c.platform)
    /\ ~Truthy(resolve_column(fdf.cols, fcall.c.platform_col, "platform"))
    /\ ~DateSupplied(fcall.c)
    /\ Len(fdf.rows) > 0
    /\ fcall.out.status = 400
    /\ fcall.out.detail = PlatformDetail

\* the request without its score bounds
WithoutScore(c) == [c EXCEPT !.score_min = NoneNum, !.score_max = NoneNum]

\* the bounds of the score block after its defaults
ScoreLow(c) == IF IsNone(c.score_min) THEN 100 ELSE Val(c.score_min)
ScoreHigh(c) == IF IsNone(c.score_max) THEN 500 ELSE Val(c.score_max)

\* C14: in the two engines that take score bounds, a bound supplied on a frame whose
\* score column does not resolve is skipped: the engine ends as it does for the same
\* request without the bounds (same status, same error if any, same rows), the one
\* other outcome being the 422 of score_min above score_max.
C14_ScoreSkippedWithoutColumn ==
    (/\ fcall.pc = "done"
     /\ fcall.engine \in {"finance", "satisfaction"}
     /\ ScoreSupplied(fcall.c)
     /\ ~Truthy(resolve_column(fdf.cols, fcall.c.score_col, "satisfacao_nivel"))) =>
        LET without == apply_global_filters(fcall.engine, fdf, WithoutScore(fcall.c))
        IN  /\ ScoreLow(fcall.c) <= ScoreHigh(fcall.c) => fcall.out = without
            /\ fcall.out # without =>
                  /\ ScoreLow(fcall.c) > ScoreHigh(fcall.c)
                  /\ fcall.out = Raise(422, "score_min nao pode ser maior que score_max")

\* a score bound on a frame with rows and no score column: every row comes back
C14_Witness ==
    /\ fcall.pc = "done"
    /\ fcall.engine \in {"finance", "satisfaction"}
    /\ ~IsNone(fcall.c.score_min)
    /\ ~Truthy(resolve_column(fdf.cols, fcall.c.score_col, "satisfacao_nivel"))
    /\ fcall.out.status = 200
    /\ Len(fdf.rows) = 2
    /\ fcall.out.rows = fdf.rows

\* the datetime of a row on the column dtc lies within the bounds the request carries
WithinDates(row, dtc, c) ==
    LET when == to_datetime(row.cells[dtc])
    IN  /\ when.kind = "dt"
        /\ Truthy(c.start_date) => when.num >= DateTokens[c.start_date]
        /\ Truthy(c.end_date) => when.num <= DateTokens[c.end_date]

\* the request carries date bounds and nothing else
OnlyDates(c) ==
    /\ DateSupplied(c)
    /\ ~ListSupplied(c.platform) /\ ~ListSupplied(c.macro_bairro) /\ ~ListSupplied(c.classe_pedido)
    /\ ~ScoreSupplied(c) /\ ~StatusSupplied(c)

\* C15: with a date bound supplied, a date column resolved and the bounds parsed, the
\* date block keeps exactly the rows whose datetime is >= start (if given) and <= end
\* (if given), both inclusive, and drops every row whose date is missing or does not
\* parse; an engine returns no row outside the bounds, and exactly the rows within them
\* when the bounds are all the request carries.
C15_DateRangeInclusive ==
    (/\ fcall.pc = "done"
     /\ DateSupplied(fcall.c)
     /\ Truthy(resolve_date_column(fdf.cols, fcall.c.date_col))
     /\ Truthy(fcall.c.start_date) => ~IsNone(parse_datetime(fcall.c.start_date))
     /\ Truthy(fcall.c.end_date) => ~IsNone(parse_datetime(fcall.c.end_date))) =>
        LET dtc == resolve_date_column(fdf.cols, fcall.c.date_col)
            Within(row) == WithinDates(row, dtc, fcall.c)
            block == date_range_filter(Running(fdf.rows), dtc, fcall.c.start_date, fcall.c.end_date)
        IN  /\ block.status = 200
            /\ block.rows = SelectSeq(fdf.rows, Within)
            /\ fcall.out.status = 200 => \A i \in 1..Len(fcall.out.rows) : Within(fcall.out.rows[i])
            /\ (fcall.engine # "satisfaction" /\ OnlyDates(fcall.c)) =>
                  fcall.out.status = 200 /\ fcall.out.rows = SelectSeq(fdf.rows, Within)

\* both bounds given: the row dated exactly at the start bound is kept, the row whose
\* date is missing or unparseable is dropped
C15_Witness ==
    /\ fcall.pc = "done"
    /\ fcall.out.status = 200
    /\ fcall.c.start_date = "2024-01-02" /\ fcall.c.end_date = "2024-01-03"
    /\ Len(fdf.rows) = 2
    /\ Len(fcall.out.rows) = 1
    /\ LET dtc == resolve_date_column(fdf.cols, fcall.c.date_col)
       IN  /\ to_datetime(fcall.out.rows[1].cells[dtc]) = Dt(24)
           /\ \E i \in 1..2 : to_datetime(fdf.rows[i].cells[dtc]) = NA

\* the strings of the inputs that are a calendar date written yyyy-mm-dd
IsoDates == {"2024-01-01", "2024-01-02", "2024-01-03"}

\* C16: a supplied start_date or end_date that is not a date written yyyy-mm-dd is
\* answered 422 (here on frames whose date column resolves, where the engine reaches
\* the parsing of the bounds).
C16_NonIsoDateIs422 ==
    (/\ fcall.pc = "done"
     /\ Truthy(resolve_date_column(fdf.cols, fcall.c.date_col))
     /\ \/ Truthy(fcall.c.start_date) /\ fcall.c.start_date \notin IsoDates
        \/ Truthy(fcall.c.end_date) /\ fcall.c.end_date \notin IsoDates) =>
        fcall.out.status = 422

\* the bounds pd.to_datetime cannot read at all are answered 422
C16_UnparseableDateIs422 ==
    (/\ fcall.pc = "done"
     /\ Truthy(resolve_date_column(fdf.cols, fcall.c.date_col))
     /\ \/ Truthy(fcall.c.start_date) /\ IsNone(parse_datetime(fcall.c.start_date))
        \/ Truthy(fcall.c.end_date) /\ IsNone(parse_datetime(fcall.c.end_date))) =>
        fcall.out.status = 422 /\ fcall.out.rows = <<>>

\* the score of a row on the column scc is a number within the bounds of the request,
\* a bound not given being 1 (low) or 5 (high)
WithinScores(row, scc, c) ==
    LET score == to_numeric(row.cells[scc])
    IN  score.kind = "num" /\ ScoreLow(c) <= score.num /\ score.num <= ScoreHigh(c)

\* C17: in the two engines that take score bounds, with a bound supplied, the score
\* column resolved and the request accepted, the rows returned are exactly the rows the
\* engine returns without the bounds whose numeric score s has min <= s <= max, a bound
\* not given being 1 or 5: with 4 and 5, a score of 3.9 goes, 4.0 and 5.0 stay.
C17_ScoreRangeInclusive ==
    (/\ fcall.pc = "done"
     /\ fcall.engine \in {"finance", "satisfaction"}
     /\ ScoreSupplied(fcall.c)
     /\ Truthy(resolve_column(fdf.cols, fcall.c.score_col, "satisfacao_nivel"))
     /\ fcall.out.status = 200) =>
        LET scc == resolve_column(fdf.cols, fcall.c.score_col, "satisfacao_nivel")
            Within(row) == WithinScores(row, scc, fcall.c)
            without == apply_global_filters(fcall.engine, fdf, WithoutScore(fcall.c))
        IN  /\ without.status = 200
            /\ fcall.out.rows = SelectSeq(without.rows, Within)
            /\ (fcall.engine = "finance" /\ ~DateSupplied(fcall.c) /\ ~ListSupplied(fcall.c.platform)
                /\ ~ListSupplied(fcall.c.macro_bairro) /\ ~ListSupplied(fcall.c.classe_pedido))
                  => fcall.out.rows = SelectSeq(fdf.rows, Within)

\* score_min=4 and score_max=5 on a frame with a 3.9 and a 4.0: the 4.0 alone comes back
C17_Witness ==
    /\ fcall.pc = "done"
    /\ fcall.engine = "finance"
    /\ fcall.c.score_min = Some(400) /\ fcall.c.score_max = Some(500)
    /\ fcall.out.status = 200
    /\ Len(fdf.rows) = 2
    /\ LET scc == resolve_column(fdf.cols, fcall.c.score_col, "satisfacao_nivel")
       IN  /\ Truthy(scc)
           /\ fdf.rows[1].cells[scc] = Num(390)
           /\ fdf.rows[2].cells[scc] = Num(400)
           /\ fcall.out.rows = <<fdf.rows[2]>>

\* score_min=4 alone: the high bound is 5 and a score of exactly 5.0 is kept
C17_WitnessDefault ==
    /\ fcall.pc = "done"
    /\ fcall.c.score_min = Some(400) /\ IsNone(fcall.c.score_max)
    /\ fcall.out.status = 200
    /\ Len(fcall.out.rows) = 1
    /\ LET scc == resolve_column(fdf.cols, fcall.c.score_col, "satisfacao_nivel")
       IN  Truthy(scc) /\ fcall.out.rows[1].cells[scc] = Num(500)

\* C18 as stated: in the two engines that take score bounds, a request whose score_min
\* is above its score_max, a bound not given being 1 or 5, is answered 422, whether or
\* not the score column resolves.
C18_InvertedScoreRangeIs422 ==
    (/\ fcall.pc = "done"
     /\ fcall.engine \in {"finance", "satisfaction"}
     /\ ScoreSupplied(fcall.c)
     /\ ScoreLow(fcall.c) > ScoreHigh(fcall.c)) =>
        fcall.out.status = 422 /\ fcall.out.rows = <<>>

\* C18, amended: such a request is always rejected with a client error and no rows;
\* the error is the 422 of the score bounds unless a block the engine runs before its
\* score block has already rejected the request (date column missing, date bound
\* unparseable, column of an accepted-value list missing), the outcome then being that
\* block's; in particular it is the score 422 whether or not the score column resolves.
C18_InvertedScoreRangeRejected ==
    (/\ fcall.pc = "done"
     /\ fcall.engine \in {"finance", "satisfaction"}
     /\ ScoreSupplied(fcall.c)
     /\ ScoreLow(fcall.c) > ScoreHigh(fcall.c)) =>
        \* the blocks run before the score block: the request without its score bounds
        \* and without its delivery status
        LET before == apply_global_filters(fcall.engine, fdf,
                        [WithoutScore(fcall.c) EXCEPT !.delivery_status = NoneStr])
        IN  /\ fcall.out.rows = <<>>
            /\ fcall.out.status \in {400, 422}
            /\ IF before.status = 200
               THEN fcall.out = Raise(422, "score_min nao pode ser maior que score_max")
               ELSE fcall.out = before

\* score_min=4 with score_max=3 on a frame with rows and no score column is answered 422
C18_Witness ==
    /\ fcall.pc = "done"
    /\ fcall.engine \in {"finance", "satisfaction"}
    /\ fcall.c.score_min = Some(400) /\ fcall.c.score_max = Some(300)
    /\ ~Truthy(resolve_column(fdf.cols, fcall.c.score_col, "satisfacao_nivel"))
    /\ Len(fdf.rows) > 0
    /\ fcall.out = Raise(422, "score_min nao pode ser maior que score_max")

\* the request without its delivery status
WithoutStatus(c) == [c EXCEPT !.delivery_status = NoneStr]

\* delta = delivery_duration - eta of a row is a number, and late (above the threshold)
\* or on time (at most the threshold); the threshold is 0 when the request has none
Late(row, dlc, etc, c) ==
    LET d == to_numeric(row.cells[dlc])
        e == to_numeric(row.cells[etc])
    IN  d.kind = "num" /\ e.kind = "num"
        /\ d.num - e.num > (IF IsNone(c.threshold_min) THEN 0 ELSE Val(c.threshold_min))

OnTime(row, dlc, etc, c) ==
    LET d == to_numeric(row.cells[dlc])
        e == to_numeric(row.cells[etc])
    IN  d.kind = "num" /\ e.kind = "num"
        /\ d.num - e.num <= (IF IsNone(c.threshold_min) THEN 0 ELSE Val(c.threshold_min))

\* C19: in the two engines that take a delivery status, an accepted request with
\* 'atrasado' gets exactly the rows the engine returns without the status whose
\* delta = delivery - eta is above the threshold, and with 'no_prazo' exactly those whose
\* delta is at most the threshold, the threshold being the caller's or 0.
C19_DeliveryStatusByDelta ==
    (/\ fcall.pc = "done"
     /\ fcall.engine \in {"ops", "satisfaction"}
     /\ StatusSupplied(fcall.c)
     /\ fcall.out.status = 200) =>
        LET dlc == fcall.out.dlc
            etc == fcall.out.etc
            IsLate(row) == Late(row, dlc, etc, fcall.c)
            IsOnTime(row) == OnTime(row, dlc, etc, fcall.c)
            without == apply_global_filters(fcall.engine, fdf, WithoutStatus(fcall.c))
        IN  /\ fcall.c.delivery_status \in {"atrasado", "no_prazo"}
            /\ without.status = 200
            /\ fcall.c.delivery_status = "atrasado" => fcall.out.rows = SelectSeq(without.rows, IsLate)
            /\ fcall.c.delivery_status = "no_prazo" => fcall.out.rows = SelectSeq(without.rows, IsOnTime)

\* no threshold given, 'no_prazo': the row delivered exactly at its ETA is kept, the row
\* delivered 0.01 after its ETA is dropped
C19_Witness ==
    /\ fcall.pc = "done"
    /\ fcall.engine = "ops"
    /\ fcall.c.delivery_status = "no_prazo"
    /\ IsNone(fcall.c.threshold_min)
    /\ fcall.out.status = 200
    /\ Len(fdf.rows) = 2
    /\ Len(fcall.out.rows) = 1
    /\ LET d(row) == row.cells[fcall.out.dlc].num
           e(row) == row.cells[fcall.out.etc].num
       IN  /\ d(fcall.out.rows[1]) = e(fcall.out.rows[1])
           /\ \E i \in 1..2 : d(fdf.rows[i]) = e(fdf.rows[i]) + 1

----------------------------------------------------------------------------
(* Properties of ops_kpis, under SpecOps *)

\* the on_time_rate_pct of a response
RateOf(resp) == resp.data[5].vals[1].num

\* the rows ops_kpis aggregates
Remaining == apply_global_filters_ops(fdf, hcall.q.c).rows

\* C20: in ops_kpis, for a caller-supplied threshold (the grace left at its default),
\* a request filtered with 'no_prazo' reports on_time_rate_pct = 100 whenever a row
\* remains, and a request filtered with 'atrasado' reports 0.
C20_RateAgreesWithFilter ==
    (/\ hcall.pc = "done"
     /\ hcall.handler = "ops_kpis"
     /\ hcall.resp.status = 200
     /\ ~IsNone(hcall.q.c.threshold_min)
     /\ hcall.q.grace_min = 0) =>
        /\ (hcall.q.c.delivery_status = "no_prazo" /\ Len(Remaining) > 0) => RateOf(hcall.resp) = 10000
        /\ hcall.q.c.delivery_status = "atrasado" => RateOf(hcall.resp) = 0

\* the same when the caller passes the same value as grace_min and as threshold_min,
\* or leaves the threshold at 0 with the default grace: then the two agree
C20_RateAgreesWhenGraceIsThreshold ==
    (/\ hcall.pc = "done"
     /\ hcall.handler = "ops_kpis"
     /\ hcall.resp.status = 200
     /\ hcall.q.grace_min = (IF IsNone(hcall.q.c.threshold_min) THEN 0 ELSE Val(hcall.q.c.threshold_min))) =>
        /\ (hcall.q.c.delivery_status = "no_prazo" /\ Len(Remaining) > 0) => RateOf(hcall.resp) = 10000
        /\ hcall.q.c.delivery_status = "atrasado" => RateOf(hcall.resp) = 0

\* the handlers of the ops router, modelled here, that declare a delivery_status parameter
AcceptsDeliveryStatus == {"ops_kpis", "late_rate_by_macro"}

\* a delivery_status that is neither 'atrasado' nor 'no_prazo'
InvalidStatus(c) == Truthy(c.delivery_status) /\ c.delivery_status \notin {"atrasado", "no_prazo"}

\* C21: in every operation that accepts delivery_status, a supplied value other than
\* 'atrasado' or 'no_prazo' ends the request in a 4xx client error; none ignores it.
C21_InvalidStatusIsClientError ==
    (/\ hcall.pc = "done"
     /\ hcall.handler \in AcceptsDeliveryStatus
     /\ InvalidStatus(hcall.q.c)) =>
        hcall.resp.status \in 400..499

\* the same of ops_kpis alone, which hands the value to its engine: 422 whatever else
\* the request carries here
C21_InvalidStatusIs422InKpis ==
    (/\ hcall.pc = "done"
     /\ hcall.handler = "ops_kpis"
     /\ InvalidStatus(hcall.q.c)) =>
        hcall.resp.status = 422

\* the logical fields ops_kpis aggregates that do not resolve on the frame
UnresolvedKpiFields(df, q) ==
    {l \in {"tempo_preparo_minutos", "actual_delivery_minutes", "eta_minutes_quote", "distance_km"} :
        ~Truthy(resolve_column(df.cols,
                    CASE l = "tempo_preparo_minutos" -> q.prep_col
                      [] l = "actual_delivery_minutes" -> q.c.delivery_col
                      [] l = "eta_minutes_quote" -> q.c.eta_col
                      [] l = "distance_km" -> q.distance_col, l))}

\* C22: whenever a logical field an aggregation needs for its result fails to resolve, the
\* operation ends in a client error; no default value stands in for the missing field.
C22_UnresolvedFieldIsClientError ==
    (/\ hcall.pc = "done"
     /\ hcall.handler = "ops_kpis"
     /\ UnresolvedKpiFields(fdf, hcall.q) # {}) =>
        hcall.resp.status \in 400..499

\* the late-rate handlers do end in 400 when one of their three columns does not resolve
C22_LateRateNeedsItsColumns ==
    (/\ hcall.pc = "done"
     /\ hcall.handler \in {"late_rate_by_macro", "late_rate_by_platform"}
     /\ \/ ~Truthy(resolve_column(fdf.cols, hcall.q.c.delivery_col, "actual_delivery_minutes"))
        \/ ~Truthy(resolve_column(fdf.cols, hcall.q.c.eta_col, "eta_minutes_quote"))) =>
        hcall.resp.status = 400

\* the rows a late-rate handler groups: those its engine keeps, no delivery status applied
Grouped == apply_global_filters_ops(fdf, [hcall.q.c EXCEPT !.delivery_status = NoneStr])

\* the threshold of the request, 0 by default
Threshold == IF IsNone(hcall.q.c.threshold_min) THEN 0 ELSE Val(hcall.q.c.threshold_min)

\* the rows of Grouped whose column col reads k as a string
Members(col, k) == {i \in 1..Len(Grouped.rows) : astype_str(Grouped.rows[i].cells[col]) = k}

\* of those, the rows with delivery - eta > threshold, both numbers
LateMembers(col, k) ==
    {i \in Members(col, k) :
        LET d == to_numeric(Grouped.rows[i].cells[Grouped.dlc])
            e == to_numeric(Grouped.rows[i].cells[Grouped.etc])
        IN  d.kind = "num" /\ e.kind = "num" /\ d.num - e.num > Threshold}

\* C24: late_rate_by_platform returns, for each platform value present in the filtered
\* dataset, late_count = number of its rows with delivery - eta > threshold, total = number
\* of its rows and late_rate = late_count / total.
C24_LateCountTotalAndRate ==
    (hcall.pc = "done" /\ hcall.handler = "late_rate_by_platform" /\ hcall.resp.status = 200) =>
        \A k \in {astype_str(Grouped.rows[i].cells[Grouped.plc]) : i \in 1..Len(Grouped.rows)} \ {"nan"} :
            \E j \in 1..Len(hcall.resp.data) :
                LET r == hcall.resp.data[j]
                IN  /\ r.platform = Txt(k)
                    /\ r.late_count = Num(Cardinality(LateMembers(Grouped.plc, k)) * 100)
                    /\ "total" \in DOMAIN r
                    /\ r.total = Num(Cardinality(Members(Grouped.plc, k)) * 100)
                    /\ r.late_rate.num * Cardinality(Members(Grouped.plc, k)) \in
                         (Cardinality(LateMembers(Grouped.plc, k)) * 100 - Cardinality(Members(Grouped.plc, k)) + 1)
                         .. (Cardinality(LateMembers(Grouped.plc, k)) * 100)

\* what the response does carry: late_count, on_time_count = total - late_count and
\* late_rate = late_count / total (to the hundredth), and no total
C24_LateCountOnTimeCountAndRate ==
    (hcall.pc = "done" /\ hcall.handler = "late_rate_by_platform" /\ hcall.resp.status = 200) =>
        \A k \in {astype_str(Grouped.rows[i].cells[Grouped.plc]) : i \in 1..Len(Grouped.rows)} :
            \E j \in 1..Len(hcall.resp.data) :
                LET r == hcall.resp.data[j]
                    total == Cardinality(Members(Grouped.plc, k))
                    late == Cardinality(LateMembers(Grouped.plc, k))
                IN  /\ DOMAIN r = {"platform", "late_count", "on_time_count", "late_rate"}
                    /\ r.platform = Txt(k)
                    /\ r.late_count = Num(late * 100)
                    /\ r.on_time_count = Num((total - late) * 100)
                    /\ r.late_rate = Num((late * 100) \div total)

\* the scenario of the claim: rows {A,30,25}, {A,20,25}, {B,40,20}, threshold 0
C24_Scenario ==
    /\ hcall.pc = "done"
    /\ hcall.handler = "late_rate_by_platform"
    /\ hcall.q.c.platform = NoneList
    /\ Threshold = 0
    /\ fdf.cols = DOMAIN OpsSheetCanonical
    /\ Len(fdf.rows) = 3
    /\ \A i \in 1..3 :
         <<fdf.rows[i].cells["platform"], fdf.rows[i].cells["actual_delivery_minutes"],
           fdf.rows[i].cells["eta_minutes_quote"]>> =
         <<<<Txt("A"), Num(3000), Num(2500)>>, <<Txt("A"), Num(2000), Num(2500)>>,
           <<Txt("B"), Num(4000), Num(2000)>>>>[i]

\* in the scenario the response is B (1 late, 0 on time, rate 1.0) then A (1, 1, 0.5)
C24_ScenarioResponse ==
    C24_Scenario =>
        hcall.resp.data =
            << [platform |-> Txt("B"), late_count |-> Num(100), on_time_count |-> Num(0),
                late_rate |-> Num(100)],
               [platform |-> Txt("A"), late_count |-> Num(100), on_time_count |-> Num(100),
                late_rate |-> Num(50)] >>

\* the grouped late-rate handlers, the column each groups by and the name it gives the key
GroupedLateRate == {"late_rate_by_macro", "late_rate_by_platform"}
KeyColumn == IF hcall.handler = "late_rate_by_macro" THEN Grouped.mcc ELSE Grouped.plc
KeyField == IF hcall.handler = "late_rate_by_macro" THEN "macro_bairro" ELSE "platform"

\* the groups of the loaded frame that the request's filters leave without a row
EmptiedGroups ==
    {astype_str(fdf.rows[i].cells[KeyColumn]) : i \in 1..Len(fdf.rows)}
    \ {astype_str(Grouped.rows[i].cells[KeyColumn]) : i \in 1..Len(Grouped.rows)}

\* C25 as stated: a group with zero rows after filtering is reported with late_rate 0.
C25_EmptyGroupHasRateZero ==
    (hcall.pc = "done" /\ hcall.handler \in GroupedLateRate /\ hcall.resp.status = 200) =>
        \A k \in EmptiedGroups :
            \E j \in 1..Len(hcall.resp.data) :
                /\ hcall.resp.data[j][KeyField] = Txt(k)
                /\ hcall.resp.data[j].late_rate = Num(0)

\* C25, amended: in the grouped late-rate operations every returned group has at least
\* one row after filtering and a late_rate that is a number in [0,1]; a group the filters
\* leave without a row is not returned at all.
C25_LateRateInUnitInterval ==
    (hcall.pc = "done" /\ hcall.handler \in GroupedLateRate /\ hcall.resp.status = 200) =>
        /\ \A j \in 1..Len(hcall.resp.data) :
                /\ hcall.resp.data[j].late_rate.kind = "num"
                /\ hcall.resp.data[j].late_rate.num \in 0..100
                /\ Members(KeyColumn, hcall.resp.data[j][KeyField].txt) # {}
        /\ \A k \in EmptiedGroups :
                \A j \in 1..Len(hcall.resp.data) : hcall.resp.data[j][KeyField] # Txt(k)

\* a response with a group late for one row of two, and a group that was filtered out
C25_Witness ==
    /\ hcall.pc = "done"
    /\ hcall.handler \in GroupedLateRate
    /\ hcall.resp.status = 200
    /\ EmptiedGroups # {}
    /\ \E j \in 1..Len(hcall.resp.data) :
         /\ hcall.resp.data[j].late_count = Num(100)
         /\ hcall.resp.data[j].on_time_count = Num(100)
         /\ hcall.resp.data[j].late_rate = Num(50)

\* the rows of group k that the delivery-status filter keeps for status st, same request
KeptByFilter(st, k) ==
    LET kept == apply_global_filters_ops(fdf, [hcall.q.c EXCEPT !.delivery_status = st]).rows
    IN  {i \in 1..Len(kept) : astype_str(kept[i].cells[KeyColumn]) = k}

\* C29: for the same dataset, group and threshold, late_count is the number of the
\* group's rows the filter keeps with 'atrasado' and on_time_count the number it keeps
\* with 'no_prazo', also for rows whose delivery duration or eta is missing or non-numeric.
C29_CountsAgreeWithFilter ==
    (hcall.pc = "done" /\ hcall.handler \in GroupedLateRate /\ hcall.resp.status = 200) =>
        \A j \in 1..Len(hcall.resp.data) :
            LET r == hcall.resp.data[j]
            IN  /\ r.late_count = Num(Cardinality(KeptByFilter("atrasado", r[KeyField].txt)) * 100)
                /\ r.on_time_count = Num(Cardinality(KeptByFilter("no_prazo", r[KeyField].txt)) * 100)

\* the late half alone does agree
C29_LateCountAgreesWithFilter ==
    (hcall.pc = "done" /\ hcall.handler \in GroupedLateRate /\ hcall.resp.status = 200) =>
        \A j \in 1..Len(hcall.resp.data) :
            hcall.resp.data[j].late_count =
                Num(Cardinality(KeptByFilter("atrasado", hcall.resp.data[j][KeyField].txt)) * 100)

\* and both halves agree on a frame whose delivery and eta cells are all numbers
C29_CountsAgreeOnNumericRows ==
    (/\ hcall.pc = "done" /\ hcall.handler \in GroupedLateRate /\ hcall.resp.status = 200
     /\ \A i \in 1..Len(fdf.rows) :
            /\ to_numeric(fdf.rows[i].cells[Grouped.dlc]).kind = "num"
            /\ to_numeric(fdf.rows[i].cells[Grouped.etc]).kind = "num") =>
        C29_CountsAgreeWithFilter

\* the calendar days of the rows ops_timeseries_delivery keeps: a date and a number
DatedDays ==
    LET dt_col == Or(resolve_column(fdf.cols, hcall.q.c.date_col, "order_datetime"),
                     resolve_column(fdf.cols, hcall.q.c.date_col, "order_date"))
        delivery == resolve_column(fdf.cols, hcall.q.c.delivery_col, "actual_delivery_minutes")
    IN  {to_datetime(fdf.rows[i].cells[dt_col]).num \div 24 :
            i \in {j \in 1..Len(fdf.rows) :
                    /\ to_datetime(fdf.rows[j].cells[dt_col]).kind = "dt"
                    /\ to_numeric(fdf.rows[j].cells[delivery]).kind = "num"}}

\* C27: a calendar-resampling operation returns one row for every bucket between the
\* first and the last date of the data, and a bucket that holds no rows is reported with
\* value 0, never as a missing value and never omitted.
C27_EmptyBucketIsZero ==
    (hcall.pc = "done" /\ hcall.handler = "ops_timeseries_delivery" /\ hcall.resp.status = 200) =>
        /\ \A d \in DatedDays : \A x \in DatedDays : \A b \in d..x :
                \E j \in 1..Len(hcall.resp.data) : hcall.resp.data[j].date = Dt(b * 24)
        /\ \A j \in 1..Len(hcall.resp.data) :
                /\ hcall.resp.data[j].avg_delivery_minutes.kind = "num"
                /\ (hcall.resp.data[j].date.num \div 24) \notin DatedDays =>
                        hcall.resp.data[j].avg_delivery_minutes = Num(0)

\* the first half holds: no bucket between the first and the last date is omitted
C27_EveryBucketReturned ==
    (hcall.pc = "done" /\ hcall.handler = "ops_timeseries_delivery" /\ hcall.resp.status = 200) =>
        \A d \in DatedDays : \A x \in DatedDays : \A b \in d..x :
            \E j \in 1..Len(hcall.resp.data) : hcall.resp.data[j].date = Dt(b * 24)

\* and a bucket without rows carries NaN
C27_EmptyBucketIsNaN ==
    (hcall.pc = "done" /\ hcall.handler = "ops_timeseries_delivery" /\ hcall.resp.status = 200) =>
        \A j \in 1..Len(hcall.resp.data) :
            (hcall.resp.data[j].date.num \div 24) \notin DatedDays <=>
                hcall.resp.data[j].avg_delivery_minutes = NA

----------------------------------------------------------------------------
(* Properties of the handlers over the orders' totals, under SpecSales *)

\* the two handlers named finance_top_clients: the one main.py serves, the one of the
\* finance router
TopClients == {"main.finance_top_clients", "financeiro.finance_top_clients"}

\* the frame has no client-identifier column, and its total column resolves
NoClientColumn ==
    /\ ~Truthy(resolve_column(fdf.cols, hcall.q.client_col, "cliente_id"))
    /\ fdf.cols \cap {"cliente_nome", "customer_name", "nome_cliente", "cliente", "user_name"} = {}
    /\ Truthy(resolve_column(fdf.cols, hcall.q.total_col, "total_brl"))

\* C23: top-clients-by-spend returns an empty list, not an error, when the dataset has
\* no client-identifier column, while a missing total column is still a client error.
C23_NoClientColumnIsEmptyList ==
    (hcall.pc = "done" /\ hcall.handler \in TopClients) =>
        /\ NoClientColumn => hcall.resp = Response(200, "", <<>>)
        /\ ~Truthy(resolve_column(fdf.cols, hcall.q.total_col, "total_brl")) => hcall.resp.status = 400

\* the handler of the finance router does so
C23_RouterHandlerFallsBack ==
    (hcall.pc = "done" /\ hcall.handler = "financeiro.finance_top_clients") =>
        /\ NoClientColumn => hcall.resp = Response(200, "", <<>>)
        /\ ~Truthy(resolve_column(fdf.cols, hcall.q.total_col, "total_brl")) => hcall.resp.status = 400

\* the handler main.py serves answers 400 for either missing column
C23_ServedHandlerIs400 ==
    (/\ hcall.pc = "done"
     /\ hcall.handler = "main.finance_top_clients"
     /\ NoClientColumn \/ ~Truthy(resolve_column(fdf.cols, hcall.q.total_col, "total_brl"))) =>
        hcall.resp.status = 400

\* the column finance_kpis adds up, and the sum of its numbers alone
SummedColumn == resolve_column(fdf.cols, hcall.q.total_col, "total_brl")
SumOfNumbers ==
    SumCells(Mask(Column(fdf.rows, SummedColumn),
                  {i \in 1..Len(fdf.rows) : fdf.rows[i].cells[SummedColumn].kind = "num"}))

\* C26: an operation that computes a sum over a numeric field leaves out exactly the row
\* that holds a non-numeric token and returns normally; the request never raises because of
\* the token.
C26_TokenRowIsLeftOut ==
    (hcall.pc = "done" /\ hcall.handler = "finance_kpis" /\ Truthy(SummedColumn)) =>
        /\ hcall.resp.status = 200
        /\ hcall.resp.data[1] = [key |-> "receita_total", vals |-> <<Num(SumOfNumbers)>>]

\* it does so on a column without a token: missing values alone are left out
C26_MissingValuesAreLeftOut ==
    (/\ hcall.pc = "done" /\ hcall.handler = "finance_kpis" /\ Truthy(SummedColumn)
     /\ ~NotNumeric(fdf.rows, SummedColumn)) =>
        /\ hcall.resp.status = 200
        /\ hcall.resp.data[1] = [key |-> "receita_total", vals |-> <<Num(SumOfNumbers)>>]

\* and any token in the summed column ends the request in a 500
C26_TokenIsServerError ==
    (/\ hcall.pc = "done" /\ hcall.handler = "finance_kpis" /\ Truthy(SummedColumn)
     /\ NotNumeric(fdf.rows, SummedColumn)) =>
        hcall.resp = ServerError

\* ops_kpis, which coerces with pd.to_numeric before averaging, does leave the token row
\* out (under SpecOps): the mean delivery time is that of the rows whose delivery is a number
C26_OpsKpisLeaveTokenOut ==
    (hcall.pc = "done" /\ hcall.handler = "ops_kpis" /\ hcall.resp.status = 200
     /\ "actual_delivery_minutes" \in fdf.cols) =>
        LET numbers == Mask(Remaining, {i \in 1..Len(Remaining) :
                            Remaining[i].cells["actual_delivery_minutes"].kind = "num"})
        IN  hcall.resp.data[2].vals[1] =
                IF Len(numbers) = 0 THEN NA
                ELSE Num(SumCells(Column(numbers, "actual_delivery_minutes")) \div Len(numbers))

\* the valid ticket values of the frame: total / item count, the rows with a missing or
\* non-positive item count or without a total left out
Tickets ==
    LET total_brl_col == resolve_column(fdf.cols, hcall.q.total_col, "total_brl")
        num_itens_col == resolve_column(fdf.cols, hcall.q.items_col, "num_itens")
        valid == Mask(fdf.rows, {i \in 1..Len(fdf.rows) :
                        /\ to_numeric(fdf.rows[i].cells[num_itens_col]).kind = "num"
                        /\ to_numeric(fdf.rows[i].cells[num_itens_col]).num > 0
                        /\ to_numeric(fdf.rows[i].cells[total_brl_col]).kind = "num"})
    IN  [j \in 1..Len(valid) |->
            (to_numeric(valid[j].cells[total_brl_col]).num * 100)
                \div to_numeric(valid[j].cells[num_itens_col]).num]

\* the columns of the histogram resolve
TicketColumns ==
    /\ Truthy(resolve_column(fdf.cols, hcall.q.total_col, "total_brl"))
    /\ Truthy(resolve_column(fdf.cols, hcall.q.items_col, "num_itens"))

RECURSIVE SumCounts(_)
SumCounts(buckets) == IF Len(buckets) = 0 THEN 0 ELSE buckets[1].count.num + SumCounts(Tail(buckets))

\* B contiguous buckets from lo to hi whose counts sum to n
Buckets(data, B, n, lo, hi) ==
    /\ Len(data) = B
    /\ \A b \in 1..(B - 1) : data[b].bin_end = data[b + 1].bin_start
    /\ SumCounts(data) = n * 100
    /\ data[1].bin_start = Num(lo)
    /\ data[B].bin_end = Num(hi)

\* C28: the ticket histogram with B bins over n valid ticket values returns B contiguous
\* buckets whose counts sum to n and whose boundaries span from the minimum to the maximum
\* ticket value, for bins=2 as well.
C28_BucketsSpanMinToMax ==
    (hcall.pc = "done" /\ hcall.handler = "overview_ticket_histogram" /\ TicketColumns) =>
        /\ hcall.resp.status = 200
        /\ Len(Tickets) > 0 =>
             Buckets(hcall.resp.data, hcall.q.bins, Len(Tickets), Min(Range(Tickets)),
                     0 - Min({0 - t : t \in Range(Tickets)}))

\* C28, amended: bins below 3 are rejected with 422; without a valid ticket value the
\* response is the empty list; otherwise there are B contiguous buckets whose counts sum to
\* n, spanning from the minimum to the maximum value, or from value - 0.5 to value + 0.5
\* when all the values are equal.
C28_BucketsOfAcceptedBins ==
    (hcall.pc = "done" /\ hcall.handler = "overview_ticket_histogram" /\ TicketColumns) =>
        LET least == Min(Range(Tickets))
            greatest == 0 - Min({0 - t : t \in Range(Tickets)})
        IN  IF hcall.q.bins < 3 THEN hcall.resp.status = 422
            ELSE IF Len(Tickets) = 0 THEN hcall.resp = Response(200, "", <<>>)
            ELSE /\ hcall.resp.status = 200
                 /\ Buckets(hcall.resp.data, hcall.q.bins, Len(Tickets),
                            IF least = greatest THEN least - 50 ELSE least,
                            IF least = greatest THEN greatest + 50 ELSE greatest)

\* ticket values [10, 10, 20, 30] in three bins: counts 2, 1, 1 between 10 and 30
C28_Witness ==
    /\ hcall.pc = "done"
    /\ hcall.handler = "overview_ticket_histogram"
    /\ hcall.q.bins = 3
    /\ TicketColumns
    /\ Tickets = <<1000, 1000, 2000, 3000>>
    /\ hcall.resp.status = 200
    /\ [b \in 1..3 |-> hcall.resp.data[b].count] = <<Num(200), Num(100), Num(100)>>
    /\ hcall.resp.data[1].bin_start = Num(1000)
    /\ hcall.resp.data[3].bin_end = Num(3000)

\* the scenario of the claim, bins=2 on those values, is answered 422
C28_ScenarioIsRejected ==
    (/\ hcall.pc = "done" /\ hcall.handler = "overview_ticket_histogram" /\ hcall.q.bins = 2) =>
        hcall.resp = ValidationError

\* the class the docstring gives an order of n items (n in hundredths), or none
ClassByItemCount(n) ==
    IF n.kind # "num" THEN NoneStr
    ELSE IF n.num = 100 THEN "individual"
    ELSE IF n.num \in {200, 300} THEN "combo"
    ELSE IF n.num >= 400 THEN "familia"
    ELSE NoneStr

\* the sum of the totals of the orders the docstring puts in class k
RevenueOfClass(k) ==
    LET total_brl_col == resolve_column(fdf.cols, hcall.q.total_col, "total_brl")
        num_itens_col == resolve_column(fdf.cols, hcall.q.items_col, "num_itens")
    IN  SumCells(Mask(Column(fdf.rows, total_brl_col),
                      {i \in 1..Len(fdf.rows) :
                            ClassByItemCount(to_numeric(fdf.rows[i].cells[num_itens_col])) = k}))

\* the revenue the response reports for class k, 0 when the class is not in it
Reported(k) ==
    LET at == {j \in 1..Len(hcall.resp.data) : hcall.resp.data[j].classe = Txt(k)}
    IN  IF at = {} THEN 0 ELSE hcall.resp.data[CHOOSE j \in at : TRUE].revenue.num

\* C30: with no class column given, an order is 'individual' if and only if it has 1
\* item, 'combo' if and only if it has 2 or 3, 'familia' if and only if it has 4 or more,
\* and the revenue of a class is the sum of the totals of its orders.
C30_ClassesByItemCount ==
    (/\ hcall.pc = "done"
     /\ hcall.handler = "finance_revenue_by_item_class_barplot"
     /\ hcall.resp.status = 200) =>
        \A k \in {"individual", "combo", "familia"} : Reported(k) = RevenueOfClass(k)

\* it is so on a frame where every order has at least one item
C30_ClassesOfCountedOrders ==
    (/\ hcall.pc = "done"
     /\ hcall.handler = "finance_revenue_by_item_class_barplot"
     /\ hcall.resp.status = 200
     /\ \A i \in 1..Len(fdf.rows) :
            LET n == to_numeric(fdf.rows[i].cells[resolve_column(fdf.cols, hcall.q.items_col, "num_itens")])
            IN  n.kind = "num" /\ n.num >= 100) =>
        \A k \in {"individual", "combo", "familia"} : Reported(k) = RevenueOfClass(k)

\* an order without an item count, or with none, is added to 'individual'
C30_UncountedOrdersAreIndividual ==
    (/\ hcall.pc = "done"
     /\ hcall.handler = "finance_revenue_by_item_class_barplot"
     /\ hcall.resp.status = 200) =>
        /\ Reported("individual") = RevenueOfClass("individual") + RevenueOfClass(NoneStr)
        /\ Reported("combo") = RevenueOfClass("combo")
        /\ Reported("familia") = RevenueOfClass("familia")

====
